---- MODULE Spec2Model ----
(***************************************************************************)
(* Motion control core of xbox-toolbox.                                    *)
(*                                                                         *)
(* Its parts are modelled each with a specification of its own:            *)
(*   Spec / FairSpec : XboxToolbox pathway playback (xbox_toolbox.py):     *)
(*                     the Tk main thread, the playback worker threads and *)
(*                     the handlers that start, stop and emergency-stop.   *)
(*                     RobotController.move_and_wait appears as a call     *)
(*                     (the move line is written) and a return.            *)
(*   SpecSession     : one RobotController (FRL_robot_controller.py): the  *)
(*                     background reader threads, the statements of        *)
(*                     move_and_wait, and the device on the serial line.   *)
(*   SpecJog         : manual jogging (xbox_toolbox.py and                 *)
(*                     FRL_xbox_controller.py): the controller's polling   *)
(*                     thread on either platform and the handlers it calls *)
(*                     for buttons, sticks and triggers.                   *)
(*   SpecStick       : one stick and trigger evaluation (_on_stick_move,   *)
(*                     _on_trigger) for every stick input of a grid.       *)
(*   SpecTrigger     : the speed changes of _on_trigger over time.         *)
(*   SpecCommand     : the command lines built from speed, smoothness and  *)
(*                     a waypoint (_move_to_waypoint, jog_joint).          *)
(*   SpecDecode      : _parse_response on feedback lines, whole and        *)
(*                     damaged.                                            *)
(*   SpecDevice      : the methods of one RobotController, one step per    *)
(*                     call, with connection loss and the reader.          *)
(*   SpecCode        : the jog codes of jog_joint, jog_cartesian, jog_j7.  *)
(*   SpecReaders     : SpecSession with connect() on a connected           *)
(*                     controller and disconnect().                        *)
(*   SpecReply       : move_and_wait, get_position from another thread and *)
(*                     a device that answers the lines in order.           *)
(*   SpecTrain       : Train mode: capturing, deleting, clearing, saving   *)
(*                     and loading waypoints, the mode buttons.            *)
(*   SpecStart       : the Start button in either operation mode.          *)
(***************************************************************************)
EXTENDS Integers, Sequences, FiniteSets, TLC

\* ------------------------------------------------------------------ bounds
MaxWaypoints == 2   \* longest pathway played back
MaxWorkers == 2     \* playback threads ever spawned in one behaviour
MaxReaders == 2     \* reader-thread slots of one RobotController
MaxRx == 1          \* lines the serial input buffer holds
MaxHeld == 1        \* buttons of the controller held down at once
MaxSpeedChanges == 1  \* speed changes by trigger in one behaviour
MaxTriggerChanges == 3  \* the same in the behaviours of the trigger alone
MaxTx == 2          \* lines written to the serial port of a controller

\* ------------------------------------------------------------ program text
Robots == {1, 2}
Workers == 1..MaxWorkers
Readers == 1..MaxReaders

\* A serial line is a sequence of characters.
TimeoutText == <<"T", "i", "m", "e", "o", "u", "t">>
NotConnectedText == <<"N", "o", "t", " ", "c", "o", "n", "n", "e", "c", "t", "e", "d">>
ExceptionText == <<"e", "x", "c">>

\* Lines the device may put on the wire (before readline's strip()): a plain
\* completion line, an error line, an error line with leading blank, a blank
\* line, a completion line with an E inside and a trailing blank.
DeviceLines ==
  { <<"k">>, <<"E", "1">>, <<" ", "E">>, <<" ">>, <<"k", "E", " ">> }

\* A waypoint holds an optional snapshot per robot and a feeder position. The
\* pathways played back are made of a waypoint captured in Both mode with the
\* feeder advanced, and one captured in Robot 1 mode with the feeder at rest.
Waypoint(r1, r2, f) == [r1 |-> r1, r2 |-> r2, feeder |-> f]
Waypoints == { Waypoint(TRUE, TRUE, 1), Waypoint(TRUE, FALSE, 0) }

RECURSIVE SeqsUpTo(_, _)
SeqsUpTo(S, n) ==
  IF n = 0 THEN { <<>> }
  ELSE LET shorter == SeqsUpTo(S, n - 1)
       IN shorter \cup { Append(s, x) : s \in { t \in shorter : Len(t) = n - 1 }, x \in S }

Pathways == SeqsUpTo(Waypoints, MaxWaypoints)

VARIABLES
  \* XboxToolbox
  playback_active,   \* self.playback_active
  playback_loop,     \* self.playback_loop
  pathway,           \* self.pathway['waypoints']
  spawned,           \* number of playback threads started so far
  wpc,               \* position of each playback thread in _playback_loop
  widx,              \* its loop variable i (1-based)
  wsuccess,          \* its local `success` of _move_to_waypoint
  after,             \* callbacks queued with root.after(0, ...)
  feeder_connected,  \* self.feeder.connected
  \* RobotController (per robot)
  connected,         \* self.connected
  wire,              \* the last write: command, robots written to, feeder command
  \* RobotController of robot 1, statement level (SpecSession)
  reading,           \* self.reading
  read_thread,       \* self.read_thread: 0 is None, else a reader slot
  rpc,               \* position of each reader thread in _read_loop
  rx,                \* serial input buffer: lines not yet read
  ser_timeout,       \* self.serial.timeout
  last_response,     \* self.last_response
  mpc,               \* position of the caller inside move_and_wait
  response,          \* local `response`
  original_timeout,  \* local `original_timeout`
  result,            \* value returned by the last move_and_wait
  \* history (not program state)
  lastRobot,         \* per worker: robot of the last move begun for this waypoint
  stopAt,            \* per worker: its position when the pending stop arrived
  start_rejected,    \* the last _start_playback logged "No waypoints to play"
  \* XboxController
  platform,          \* self.platform: "linux" or "win32"
  buttons,           \* self.buttons
  prev_buttons,      \* self.prev_buttons
  sticks,            \* self.left_stick, self.right_stick: <<lx, ly, rx, ry>>, hundredths
  triggers,          \* self.left_trigger, self.right_trigger: <<lt, rt>>, hundredths
  ppc,               \* position of the polling thread in its loop body
  pressed,           \* _poll_windows: presses not yet handled in this poll
  released,          \* _poll_windows: releases not yet handled in this poll
  \* XboxToolbox, jogging
  current_jog,       \* self.current_jog
  device_mode,       \* self.device_mode
  move_mode,         \* self.move_mode
  speed,             \* self.speed
  speed_changes,     \* number of speed changes so far (bounded)
  sinceSend,         \* time.time() - self._last_jog_send, hundredths, capped
  sinceCool,         \* time.time() - self._trigger_cooldown, hundredths, capped
  \* history of the jog commands (not program state)
  jog_out,           \* what the last handler of the polling thread wrote
  sinceStop,         \* jog intents written to a device since the last stop
  \* XboxToolbox, building a command
  smoothness,        \* self.smoothness
  snapshot,          \* waypoint['r1'] or waypoint['r2'] of the move being built
  cmd_out,           \* the command line built last
  \* XboxToolbox, Train mode
  operation_mode,    \* self.operation_mode
  saved,             \* the pathway file: whether it exists, and its text
  \* RobotController of robot 1, call level (SpecDevice, SpecDecode)
  line,              \* the line handed to _parse_response
  joints,            \* self.joints
  cartesian,         \* self.cartesian
  j7_pos,            \* self.j7_pos
  jogging,           \* self.jogging
  port_ok,           \* the serial port works: write and readline do not raise
  tx,                \* lines written to the serial port, oldest first (in SpecReply:
                     \* those the device has not answered)
  ret                \* value returned by the last call, or the message it logged

toolboxVars == <<playback_active, playback_loop, pathway, spawned, wpc, widx,
                 wsuccess, after, feeder_connected>>
robotVars == <<connected, wire>>
sessionVars == <<reading, read_thread, rpc, rx, ser_timeout, last_response,
                 mpc, response, original_timeout, result>>
historyVars == <<lastRobot, stopAt>>
padVars == <<platform, buttons, prev_buttons, sticks, triggers, ppc, pressed,
             released>>
jogState == <<device_mode, move_mode, speed, speed_changes, sinceSend,
              sinceCool, jog_out>>
jogVars == <<current_jog, sinceStop, jogState>>
trainVars == <<operation_mode, saved>>
commandVars == <<smoothness, snapshot, cmd_out, trainVars>>
feedbackVars == <<line, joints, cartesian, j7_pos>>
deviceVars == <<jogging, port_ok, tx, ret>>
controllerVars == <<commandVars, feedbackVars, deviceVars>>
inputVars == <<padVars, jogVars, controllerVars>>
vars == <<toolboxVars, robotVars, sessionVars, historyVars, start_rejected,
          inputVars>>

\* ------------------------------------------------------ RobotController
ReadTimeout == 1    \* serial.Serial(..., timeout=0.1): the short poll timeout
MoveTimeout == 60   \* move_and_wait(command, timeout=60)

RECURSIVE LStrip(_)
LStrip(s) == IF s = <<>> THEN s ELSE IF Head(s) = " " THEN LStrip(Tail(s)) ELSE s

RECURSIVE RStrip(_)
RStrip(s) ==
  IF s = <<>> THEN s
  ELSE IF s[Len(s)] = " " THEN RStrip(SubSeq(s, 1, Len(s) - 1)) ELSE s

\* str.strip()
Strip(s) == RStrip(LStrip(s))

\* move_and_wait: the final if / elif / else on the stripped response
ClassifyErrorAnywhere(resp) ==
  IF resp = <<>> THEN <<FALSE, TimeoutText>>
  ELSE IF \E i \in 1..Len(resp) : resp[i] = "E" THEN <<FALSE, resp>>
  ELSE <<TRUE, resp>>

Classify(resp) ==
  IF resp = <<>> THEN <<FALSE, TimeoutText>>
  ELSE IF Head(resp) = "E" THEN <<FALSE, resp>>
  ELSE <<TRUE, resp>>

\* RobotController.send of `cmd` by every robot of `targets`, and `fcmd` to the
\* feeder ("" for none): a line is handed to serial.write of each connected
\* device and nothing is awaited. With no connected device nothing is written.
Written(targets, cmd, fcmd) ==
  LET to == { r \in targets : connected[r] }
      f == IF feeder_connected THEN fcmd ELSE ""
  IN IF to = {} /\ f = "" THEN wire
     ELSE [cmd |-> IF to = {} THEN "" ELSE cmd, robots |-> to, feeder |-> f]

\* ------------------------------------------------- jogging: program text
\* XboxController's button names
JogButtons ==
  {"X", "Y", "LB", "RB", "DPAD_UP", "DPAD_DOWN", "DPAD_LEFT", "DPAD_RIGHT"}
DpadButtons == {"DPAD_UP", "DPAD_DOWN", "DPAD_LEFT", "DPAD_RIGHT"}
\* The buttons handled here: _on_button_press with self.operation_mode at
\* OP_MOVE, its value after construction.
Buttons == JogButtons \cup {"A", "B", "BACK"}
\* BTN_MAP of _poll_linux: the buttons that arrive as key events
KeyButtons == Buttons \ DpadButtons

MODE_ROBOT1 == 0
MODE_ROBOT2 == 1
MODE_BOTH == 2
MOVE_JOINT == 0
OP_MOVE == 0
OP_TRAIN == 1
MOVE_CARTESIAN == 1
DEFAULT_SPEED == 25

\* Stick and trigger values, and times, are in hundredths.
dz == 25                \* dz = 0.25
ResendAfter == 50       \* (now - self._last_jog_send) > 0.5
TriggerCooldown == 15   \* now - self._trigger_cooldown < 0.15
TriggerThreshold == 20  \* right_trigger > 0.2
SpeedStep == 5          \* self.speed + 5
\* time.time() is read on a grid of half seconds; an elapsed time is
\* followed up to MaxElapsed, beyond which no comparison changes.
TimeStep == 50
MaxElapsed == 2 * TimeStep

\* Stick positions of the jogging behaviours: at rest, pushed below the
\* deadzone, left stick right, the same with the right stick pulled harder.
\* Neighbours differ in one axis.
StickRest == <<0, 0, 0, 0>>
StickPositions ==
  { StickRest, <<10, 0, 0, 0>>, <<50, 0, 0, 0>>, <<50, 0, 0, -60>> }
TriggerPositions == { <<0, 0>>, <<0, 50>>, <<50, 0>> }

Abs(x) == IF x < 0 THEN -x ELSE x
Max2(a, b) == IF a >= b THEN a ELSE b

\* self.current_jog: None, ('J', axis, direction) or ('C', axis, direction)
NoJog == [type |-> "none"]
JointJog(axis, d) == [type |-> "J", joint |-> axis, dir |-> d]
CartJog(axis, d) == [type |-> "C", cart |-> axis, dir |-> d]

\* _on_stick_move: "Apply deadzone"
Deadzoned(s) == [i \in 1..4 |-> IF Abs(s[i]) < dz THEN 0 ELSE s[i]]

\* max_val < dz, on the deadzoned values
AtRest(s) ==
  LET d == Deadzoned(s)
  IN Max2(Max2(Abs(d[1]), Abs(d[2])), Max2(Abs(d[3]), Abs(d[4]))) < dz

\* (variant: the right stick is looked at first)
NewJogRightFirst(s, mode) ==
  LET d == Deadzoned(s)
      lx == d[1]  ly == d[2]  rsx == d[3]  ry == d[4]
      up(v) == IF v > 0 THEN 1 ELSE -1
  IN IF Abs(ry) >= Abs(lx) /\ Abs(ry) >= Abs(ly) /\ Abs(ry) >= Abs(rsx)
     THEN (IF mode = MOVE_JOINT THEN JointJog(4, up(ry)) ELSE CartJog("Z", up(ry)))
     ELSE IF Abs(rsx) >= Abs(lx) /\ Abs(rsx) >= Abs(ly) /\ Abs(rsx) >= Abs(ry)
     THEN (IF mode = MOVE_JOINT THEN JointJog(3, up(rsx)) ELSE CartJog("Rz", up(rsx)))
     ELSE IF Abs(lx) >= Abs(ly) /\ Abs(lx) >= Abs(rsx) /\ Abs(lx) >= Abs(ry)
     THEN (IF mode = MOVE_JOINT THEN JointJog(1, up(lx)) ELSE CartJog("Y", up(lx)))
     ELSE (IF mode = MOVE_JOINT THEN JointJog(2, up(ly)) ELSE CartJog("X", up(ly)))

\* new_jog of _on_stick_move: the if / elif chains of the two move modes
\* (rsx is the handler's local rx)
NewJog(s, mode) ==
  LET d == Deadzoned(s)
      lx == d[1]  ly == d[2]  rsx == d[3]  ry == d[4]
      up(v) == IF v > 0 THEN 1 ELSE -1
  IN IF mode = MOVE_JOINT
     THEN IF Abs(lx) >= Abs(ly) /\ Abs(lx) >= Abs(rsx) /\ Abs(lx) >= Abs(ry)
          THEN JointJog(1, up(lx))
          ELSE IF Abs(ly) >= Abs(lx) /\ Abs(ly) >= Abs(rsx) /\ Abs(ly) >= Abs(ry)
          THEN JointJog(2, up(ly))
          ELSE IF Abs(rsx) >= Abs(lx) /\ Abs(rsx) >= Abs(ly) /\ Abs(rsx) >= Abs(ry)
          THEN JointJog(3, up(rsx))
          ELSE IF Abs(ry) >= Abs(lx) /\ Abs(ry) >= Abs(ly) /\ Abs(ry) >= Abs(rsx)
          THEN JointJog(4, up(ry))
          ELSE NoJog
     ELSE IF Abs(lx) >= Abs(ly) /\ Abs(lx) >= Abs(rsx) /\ Abs(lx) >= Abs(ry)
          THEN CartJog("Y", up(lx))
          ELSE IF Abs(ly) >= Abs(lx) /\ Abs(ly) >= Abs(rsx) /\ Abs(ly) >= Abs(ry)
          THEN CartJog("X", up(ly))
          ELSE IF Abs(rsx) >= Abs(lx) /\ Abs(rsx) >= Abs(ly) /\ Abs(rsx) >= Abs(ry)
          THEN CartJog("Rz", up(rsx))
          ELSE IF Abs(ry) >= Abs(lx) /\ Abs(ry) >= Abs(ly) /\ Abs(ry) >= Abs(rsx)
          THEN CartJog("Z", up(ry))
          ELSE NoJog

\* int(n / d) for d > 0: the quotient truncated toward zero
Trunc(n, d) == IF n >= 0 THEN n \div d ELSE -((-n) \div d)

\* round(n / 4) of Python 3: to the nearest integer, a half to the even one
\* (n / 4 is exact in binary floating point)
PyRound4(n) ==
  LET q == n \div 4
      m == n % 4
  IN IF m < 2 THEN q
     ELSE IF m > 2 THEN q + 1
     ELSE IF q % 2 = 0 THEN q ELSE q + 1

\* (variant: the scaled speed is rounded)
RobotSpeedRounded(sp) == Max2(1, PyRound4(sp))

\* RobotController: robot_speed = max(1, int(speed * 25 / 100))
RobotSpeed(sp) == Max2(1, Trunc(sp * 25, 100))

\* jog_cartesian's axis_map
axis_map == [X |-> 1, Y |-> 2, Z |-> 3, Rx |-> 4, Ry |-> 5, Rz |-> 6]

\* (variant: the code does not tell the direction)
JogCodeNoDirection(axis, d) == axis * 10

\* jog_joint / jog_cartesian: code = axis * 10 + (1 if direction > 0 else 0)
JogCode(axis, d) == axis * 10 + (IF d > 0 THEN 1 ELSE 0)

\* The line a robot is sent: LJ<code>S<speed>... or LC<code>S<speed>...
NoLine == [cmd |-> ""]
JogLine(jog, sp) ==
  IF jog.type = "J"
  THEN [cmd |-> "LJ", code |-> JogCode(jog.joint, jog.dir), speed |-> RobotSpeed(sp)]
  ELSE [cmd |-> "LC", code |-> JogCode(axis_map[jog.cart], jog.dir),
        speed |-> RobotSpeed(sp)]

\* (variant: both robots whatever the device mode)
TargetsAll(mode) == Robots

\* `robots` of _start_jog, _jog_j7 and _jog_dpad
Targets(mode) ==
  IF mode = MODE_ROBOT1 THEN {1}
  ELSE IF mode = MODE_ROBOT2 THEN {2}
  ELSE IF mode = MODE_BOTH THEN {1, 2}
  ELSE {}

\* What a handler writes: whether _stop_all_jog ran (S to every connected
\* robot, stop to a connected feeder), then at most one jog: its intent, the
\* line, the robots written to, the feeder command.
NoWrite == [intent |-> NoJog, line |-> NoLine, to |-> {}, fcmd |-> ""]
NoOut == [stop |-> FALSE, jog |-> NoWrite, again |-> FALSE]

\* `for robot in robots: if robot.connected: robot.jog_...(...)`
RobotJog(jog, sp) ==
  LET to == { r \in Targets(device_mode) : connected[r] }
  IN [intent |-> jog, line |-> IF to = {} THEN NoLine ELSE JogLine(jog, sp),
      to |-> to, fcmd |-> ""]

\* self.feeder.jog_forward() / jog_reverse() of _jog_j9
FeederJog(d) ==
  [intent |-> JointJog(9, d), line |-> NoLine, to |-> {},
   fcmd |-> IF d > 0 THEN "jog_forward" ELSE "jog_reverse"]

Wrote(w) == w.to # {} \/ w.fcmd # ""

\* A handler of the polling thread has run: _stop_all_jog if `stop`, then the
\* jog write w, leaving self.current_jog at `cur`; `again` tells that the
\* write repeats the jog that was recorded.
Emit(stop, w, cur) ==
  /\ jog_out' = [stop |-> stop, jog |-> w,
                 again |-> Wrote(w) /\ cur = current_jog]
  /\ current_jog' = cur
  /\ sinceStop' = (IF stop THEN {} ELSE sinceStop)
                    \cup (IF Wrote(w) THEN {w.intent} ELSE {})
  /\ wire' = IF Wrote(w) THEN [cmd |-> w.line.cmd, robots |-> w.to, feeder |-> w.fcmd]
             ELSE IF stop THEN Written(Robots, "S", "stop")
             ELSE wire

\* After construction of XboxController: nothing held, sticks at rest.
PadInit ==
  /\ buttons = {}
  /\ prev_buttons = {}
  /\ sticks = StickRest
  /\ triggers = <<0, 0>>
  /\ ppc = "idle"
  /\ pressed = {}
  /\ released = {}

\* After XboxToolbox.__init__: no jog; _last_jog_send and _trigger_cooldown
\* are 0, far in the past.
JogInit ==
  /\ current_jog = NoJog
  /\ device_mode = MODE_ROBOT1
  /\ move_mode = MOVE_JOINT
  /\ speed = DEFAULT_SPEED
  /\ speed_changes = 0
  /\ sinceSend = MaxElapsed
  /\ sinceCool = MaxElapsed
  /\ jog_out = NoOut
  /\ sinceStop = {}

\* ------------------------------------- RobotController: feedback lines
\* The characters a number is written with.
Digits == <<"0", "1", "2", "3", "4", "5", "6", "7", "8", "9">>

\* str.find(c): the 0-based index of the first c, -1 if there is none
Find(l, c) ==
  LET at == { i \in 1..Len(l) : l[i] = c }
  IN IF at = {} THEN -1 ELSE (CHOOSE i \in at : \A j \in at : i <= j) - 1

\* line[a:b] for 0 <= a <= b
Slice(l, a, b) == SubSeq(l, a + 1, b)

\* The parts of a number's text: sign, digits before and after the point.
FloatParts(t) ==
  LET neg == t # <<>> /\ t[1] = "-"
      u == IF neg THEN Tail(t) ELSE t
      dot == Find(u, ".")
  IN [neg |-> neg,
      whole |-> IF dot < 0 THEN u ELSE Slice(u, 0, dot),
      frac |-> IF dot < 0 THEN <<>> ELSE Slice(u, dot + 1, Len(u))]

\* float(text) does not raise ValueError: an optional sign, digits, an
\* optional point and digits, at least one digit (texts of digits, "-", "."
\* and letters; no exponent, blank or underscore is among the inputs)
IsFloat(t) ==
  LET parts == FloatParts(t)
      AllDigits(w) == \A i \in 1..Len(w) : \E d \in 1..Len(Digits) : Digits[d] = w[i]
  IN /\ AllDigits(parts.whole)
     /\ AllDigits(parts.frac)
     /\ parts.whole # <<>> \/ parts.frac # <<>>

\* The number a string of digits writes.
RECURSIVE Number(_)
Number(t) ==
  IF t = <<>> THEN 0
  ELSE 10 * Number(SubSeq(t, 1, Len(t) - 1))
         + (CHOOSE d \in 0..9 : Digits[d + 1] = t[Len(t)])

\* float(text), in thousandths (texts of at most three decimals)
Float(t) ==
  LET parts == FloatParts(t)
      place == CASE Len(parts.frac) = 0 -> 1000
                 [] Len(parts.frac) = 1 -> 100
                 [] Len(parts.frac) = 2 -> 10
                 [] Len(parts.frac) = 3 -> 1
      thousandths == Number(parts.whole) * 1000 + Number(parts.frac) * place
  IN IF parts.neg THEN -thousandths ELSE thousandths

\* (variant: the cartesian values are stored in wire order)
FieldsWireOrder ==
  << [from |-> "A", to |-> "B", var |-> "joints", idx |-> 1],
     [from |-> "B", to |-> "C", var |-> "joints", idx |-> 2],
     [from |-> "C", to |-> "D", var |-> "joints", idx |-> 3],
     [from |-> "D", to |-> "E", var |-> "joints", idx |-> 4],
     [from |-> "E", to |-> "F", var |-> "joints", idx |-> 5],
     [from |-> "F", to |-> "G", var |-> "joints", idx |-> 6],
     [from |-> "G", to |-> "H", var |-> "cartesian", idx |-> 1],
     [from |-> "H", to |-> "I", var |-> "cartesian", idx |-> 2],
     [from |-> "I", to |-> "J", var |-> "cartesian", idx |-> 3],
     [from |-> "J", to |-> "K", var |-> "cartesian", idx |-> 4],
     [from |-> "K", to |-> "L", var |-> "cartesian", idx |-> 5],
     [from |-> "L", to |-> "M", var |-> "cartesian", idx |-> 6],
     [from |-> "P", to |-> "Q", var |-> "j7_pos", idx |-> 1] >>

\* (variant: J6 ends at G and starts at F or, without an F, at E)
FieldsJ6FromE ==
  << [from |-> "A", to |-> "B", var |-> "joints", idx |-> 1],
     [from |-> "B", to |-> "C", var |-> "joints", idx |-> 2],
     [from |-> "C", to |-> "D", var |-> "joints", idx |-> 3],
     [from |-> "D", to |-> "E", var |-> "joints", idx |-> 4],
     [from |-> "E", to |-> "F", var |-> "joints", idx |-> 5],
     [from |-> "E", to |-> "G", var |-> "joints", idx |-> 6],
     [from |-> "F", to |-> "G", var |-> "joints", idx |-> 6],
     [from |-> "G", to |-> "H", var |-> "cartesian", idx |-> 1],
     [from |-> "H", to |-> "I", var |-> "cartesian", idx |-> 2],
     [from |-> "I", to |-> "J", var |-> "cartesian", idx |-> 3],
     [from |-> "J", to |-> "K", var |-> "cartesian", idx |-> 6],
     [from |-> "K", to |-> "L", var |-> "cartesian", idx |-> 5],
     [from |-> "L", to |-> "M", var |-> "cartesian", idx |-> 4],
     [from |-> "P", to |-> "Q", var |-> "j7_pos", idx |-> 1] >>

\* _parse_response: the assignments in program order, each with the marker
\* its text starts after, the marker it ends before and the element it
\* stores (elements counted from 1: joints[0] is joints 1, cartesian[5] is
\* cartesian 6)
Fields ==
  << [from |-> "A", to |-> "B", var |-> "joints", idx |-> 1],
     [from |-> "B", to |-> "C", var |-> "joints", idx |-> 2],
     [from |-> "C", to |-> "D", var |-> "joints", idx |-> 3],
     [from |-> "D", to |-> "E", var |-> "joints", idx |-> 4],
     [from |-> "E", to |-> "F", var |-> "joints", idx |-> 5],
     [from |-> "F", to |-> "G", var |-> "joints", idx |-> 6],
     [from |-> "G", to |-> "H", var |-> "cartesian", idx |-> 1],
     [from |-> "H", to |-> "I", var |-> "cartesian", idx |-> 2],
     [from |-> "I", to |-> "J", var |-> "cartesian", idx |-> 3],
     [from |-> "J", to |-> "K", var |-> "cartesian", idx |-> 6],
     [from |-> "K", to |-> "L", var |-> "cartesian", idx |-> 5],
     [from |-> "L", to |-> "M", var |-> "cartesian", idx |-> 4],
     [from |-> "P", to |-> "Q", var |-> "j7_pos", idx |-> 1] >>

\* The axis state of a controller as a call of _parse_response finds it;
\* `caught` tells whether the call ended in its except clause.
AxisState ==
  [joints |-> joints, cartesian |-> cartesian, j7_pos |-> j7_pos,
   caught |-> FALSE]

\* `self.joints[i] = v`, `self.cartesian[i] = v`, `self.j7_pos = v`
Store(st, f, v) ==
  CASE f.var = "joints" -> [st EXCEPT !.joints[f.idx] = v]
    [] f.var = "cartesian" -> [st EXCEPT !.cartesian[f.idx] = v]
    [] f.var = "j7_pos" -> [st EXCEPT !.j7_pos = v]

\* The assignments of _parse_response from the k-th on: `if idx >= 0 and
\* next_idx > idx: target = float(line[idx+1:next_idx])`; a ValueError of
\* float() leaves the try block, and `except Exception: pass` ends the call.
RECURSIVE ParseFrom(_, _, _)
ParseFrom(l, k, st) ==
  IF k > Len(Fields) THEN st
  ELSE LET f == Fields[k]
           a == Find(l, f.from)
           b == Find(l, f.to)
       IN IF a >= 0 /\ b > a
          THEN IF IsFloat(Slice(l, a + 1, b))
               THEN ParseFrom(l, k + 1, Store(st, f, Float(Slice(l, a + 1, b))))
               ELSE [st EXCEPT !.caught = TRUE]
          ELSE ParseFrom(l, k + 1, st)

\* _parse_response(line): `if 'A' in line and 'B' in line:`
ParseResponse(l, st) ==
  IF Find(l, "A") >= 0 /\ Find(l, "B") >= 0 THEN ParseFrom(l, 1, st) ELSE st

\* ------------------------------------------ XboxToolbox: move commands
\* (variant: the ramp values are rounded)
AccelDecelRounded(sm) ==
  LET accel == Max2(1, PyRound4(104 - sm))
  IN <<accel, accel>>

\* _get_accel_decel: `accel = max(1, int(26 - (self.smoothness * 25 / 100)))`,
\* `return accel, accel`
AccelDecel(sm) ==
  LET accel == Max2(1, Trunc(26 * 100 - sm * 25, 100))
  IN <<accel, accel>>

\* f"{v:.3f}" of a value v given in ten-thousandths: sign, whole part and
\* three decimals of the nearest thousandth (no input ends in a 5, whose
\* rounding depends on its binary representation)
Fmt3(v) ==
  LET m == Abs(v)
      t == IF m % 10 >= 5 THEN m \div 10 + 1 ELSE m \div 10
  IN [neg |-> v < 0, whole |-> t \div 1000, frac |-> t % 1000]

\* No command was built.
NoCommand == [cmd |-> "none"]
\* waypoint['r1'] is None
NoSnapshot == [joints |-> <<>>, cartesian |-> <<>>]

\* any(cart)
AnyNonZero(cart) == \E i \in 1..Len(cart) : cart[i] # 0

\* (variant: the cartesian fields are filled in stored order)
MoveCommandStoredOrder(snap, sp, sm) ==
  IF AnyNonZero(snap.cartesian)
  THEN [cmd |-> "MJ",
        labels |-> <<"X", "Y", "Z", "Rz", "Ry", "Rx">>,
        values |-> [i \in 1..6 |-> Fmt3(snap.cartesian[i])],
        speed |-> <<"Sp", RobotSpeed(sp)>>,
        accel |-> <<"Ac", AccelDecel(sm)[1]>>,
        decel |-> <<"Dc", AccelDecel(sm)[2]>>,
        rest |-> "Rm100W0Lm000000"]
  ELSE [cmd |-> "MJ",
        labels |-> <<"", "A", "B", "C", "D", "E">>,
        values |-> [i \in 1..6 |-> Fmt3(snap.joints[i])],
        speed |-> <<"F", RobotSpeed(sp)>>,
        accel |-> <<"G", AccelDecel(sm)[1]>>,
        decel |-> <<"H", AccelDecel(sm)[2]>>,
        rest |-> ""]

\* _move_to_waypoint: the command of one robot. `if 'cartesian' in data and
\* any(data['cartesian'])` (a captured snapshot always has the key): the
\* fields X Y Z Rz Ry Rx from cart[0], cart[1], cart[2], cart[5], cart[4],
\* cart[3]; otherwise the six joints.
MoveCommand(snap, sp, sm) ==
  IF AnyNonZero(snap.cartesian)
  THEN [cmd |-> "MJ",
        labels |-> <<"X", "Y", "Z", "Rz", "Ry", "Rx">>,
        values |-> << Fmt3(snap.cartesian[1]), Fmt3(snap.cartesian[2]),
                      Fmt3(snap.cartesian[3]), Fmt3(snap.cartesian[6]),
                      Fmt3(snap.cartesian[5]), Fmt3(snap.cartesian[4]) >>,
        speed |-> <<"Sp", RobotSpeed(sp)>>,
        accel |-> <<"Ac", AccelDecel(sm)[1]>>,
        decel |-> <<"Dc", AccelDecel(sm)[2]>>,
        rest |-> "Rm100W0Lm000000"]
  ELSE [cmd |-> "MJ",
        labels |-> <<"", "A", "B", "C", "D", "E">>,
        values |-> [i \in 1..6 |-> Fmt3(snap.joints[i])],
        speed |-> <<"F", RobotSpeed(sp)>>,
        accel |-> <<"G", AccelDecel(sm)[1]>>,
        decel |-> <<"H", AccelDecel(sm)[2]>>,
        rest |-> ""]

\* _move_to_waypoint, the commands it builds: `if waypoint.get('r1') and
\* self.robot1.connected:`, the same for robot 2.
BuildMoves ==
  /\ cmd_out' = [r \in Robots |->
                   IF snapshot[r] # NoSnapshot /\ connected[r]
                   THEN MoveCommand(snapshot[r], speed, smoothness)
                   ELSE NoCommand]
  /\ UNCHANGED <<smoothness, snapshot, trainVars, feedbackVars, deviceVars>>

\* No pathway file has been written.
NoFile == [exists |-> FALSE, whole |-> FALSE, waypoints |-> <<>>, of |-> <<>>]

\* RobotController.__init__ and XboxToolbox.__init__: the state the
\* controller-level variables start in.
ControllerInit ==
  /\ smoothness = 50
  /\ snapshot = [r \in Robots |-> NoSnapshot]
  /\ cmd_out = [r \in Robots |-> NoCommand]
  /\ operation_mode = OP_MOVE
  /\ saved = NoFile
  /\ line = <<>>
  /\ joints = [i \in 1..6 |-> 0]
  /\ cartesian = [i \in 1..6 |-> 0]
  /\ j7_pos = 0
  /\ jogging = FALSE
  /\ port_ok = TRUE
  /\ tx = <<>>
  /\ ret = "none"

\* ------------------------------------------------ XboxToolbox: handlers
\* self.feeder.position: the feeder's last known position
FeederPosition == 0

Alive(w) == wpc[w] \notin {"unborn", "done"}

\* A worker has a move_and_wait outstanding on robot r.
Outstanding(w, r) == wpc[w] = (IF r = 1 THEN "r1_wait" ELSE "r2_wait")

\* _stop_all_jog: S to every connected robot, stop to the feeder (the caller
\* sets current_jog to None)
StopAllJog == Written(Robots, "S", "stop")

\* _stop_playback, whoever calls it
StopPlaybackBody ==
  /\ playback_active' = FALSE
  /\ wire' = StopAllJog
  /\ stopAt' = [w \in Workers |->
                  IF Alive(w) /\ stopAt[w] = "none" THEN wpc[w] ELSE stopAt[w]]
  /\ current_jog' = NoJog
  /\ sinceStop' = {}
  /\ UNCHANGED <<playback_loop, pathway, spawned, wpc, widx, wsuccess,
                 feeder_connected, connected, sessionVars, lastRobot,
                 start_rejected, padVars, jogState, controllerVars>>

StopPlayback == StopPlaybackBody /\ UNCHANGED after

\* (variant: no test of the pathway)
StartPlaybackUnchecked ==
  /\ spawned < MaxWorkers
  /\ playback_active' = TRUE
  /\ spawned' = spawned + 1
  /\ wpc' = [wpc EXCEPT ![spawned + 1] = "while"]
  /\ stopAt' = [w \in Workers |-> "none"]
  /\ start_rejected' = FALSE
  /\ UNCHANGED <<playback_loop, pathway, widx, wsuccess, after,
                 feeder_connected, robotVars, sessionVars, inputVars,
                 lastRobot>>

\* _start_playback: rejected on an empty pathway, else one more thread
StartPlayback ==
  IF pathway = <<>>
  THEN /\ start_rejected' = TRUE
       /\ UNCHANGED <<toolboxVars, robotVars, sessionVars, historyVars,
                      inputVars>>
  ELSE /\ spawned < MaxWorkers
       /\ playback_active' = TRUE
       /\ spawned' = spawned + 1
       /\ wpc' = [wpc EXCEPT ![spawned + 1] = "while"]
       /\ stopAt' = [w \in Workers |-> "none"]
       /\ start_rejected' = FALSE
       /\ UNCHANGED <<playback_loop, pathway, widx, wsuccess, after,
                      feeder_connected, robotVars, sessionVars, inputVars,
                      lastRobot>>

\* _toggle_playback
TogglePlayback == IF playback_active THEN StopPlayback ELSE StartPlayback

\* _emergency_stop_all: ES to every connected robot, stop to the feeder
\* (variant: robots with a move outstanding are left alone)
EStopTargetsIdleOnly == { r \in Robots : \A w \in Workers : ~Outstanding(w, r) }

EStopTargets == Robots

EmergencyStopAll ==
  /\ wire' = Written(EStopTargets, "ES", "stop")
  /\ current_jog' = NoJog
  /\ sinceStop' = {}
  /\ UNCHANGED <<playback_active, playback_loop, pathway, spawned, wpc, widx,
                 wsuccess, after, feeder_connected, connected, sessionVars,
                 historyVars, start_rejected, padVars, jogState, controllerVars>>

\* the Play/Stop button of the window
PlayButton == TogglePlayback

\* the E-STOP button of the window
EStopButton == EmergencyStopAll

\* the Loop checkbutton: _toggle_loop
ToggleLoop ==
  /\ playback_loop' = ~playback_loop
  /\ UNCHANGED <<playback_active, pathway, spawned, wpc, widx, wsuccess, after,
                 feeder_connected, robotVars, sessionVars, start_rejected, inputVars,
                 historyVars>>

\* The Tk main loop runs the oldest root.after(0, ...) callback: the log of
\* "Move failed - stopping playback", or _stop_playback.
RunAfter ==
  /\ after # <<>>
  /\ after' = Tail(after)
  /\ IF Head(after)[1] = "log"
     THEN UNCHANGED <<playback_active, playback_loop, pathway, spawned, wpc,
                      widx, wsuccess, feeder_connected, robotVars,
                      sessionVars, start_rejected, inputVars, historyVars>>
     ELSE StopPlaybackBody

\* ------------------------------------------- XboxToolbox: playback thread
\* The thread's position and locals after a step; the history of the
\* waypoint goes with them.
Goto(w, pc, i, ok, robot) ==
  /\ wpc' = [wpc EXCEPT ![w] = pc]
  /\ widx' = [widx EXCEPT ![w] = i]
  /\ wsuccess' = [wsuccess EXCEPT ![w] = ok]
  /\ lastRobot' = [lastRobot EXCEPT ![w] = robot]
  /\ UNCHANGED stopAt

\* The thread returns from _playback_loop: its locals are gone.
Return(w) ==
  /\ wpc' = [wpc EXCEPT ![w] = "done"]
  /\ widx' = [widx EXCEPT ![w] = 1]
  /\ wsuccess' = [wsuccess EXCEPT ![w] = TRUE]
  /\ lastRobot' = [lastRobot EXCEPT ![w] = 0]
  /\ stopAt' = [stopAt EXCEPT ![w] = "none"]

\* What the worker queues when _move_to_waypoint returned False.
MoveFailedCallbacks(w) == <<<<"log", w>>, <<"stop", w>>>>

\* The for loop takes element i: past the end the loop is over ("Check if we
\* should loop"); else `if not self.playback_active: return` was just passed
\* and _move_to_waypoint is entered (success = True).
NextWaypoint(w, i) ==
  IF i > Len(pathway) THEN Goto(w, "loopchk", i, TRUE, 0)
  ELSE Goto(w, "r1", i, TRUE, 0)

\* `while self.playback_active:`, the start of the for loop and its first
\* `if not self.playback_active: return`
PlaybackWhile(w) ==
  /\ wpc[w] = "while"
  /\ IF playback_active THEN NextWaypoint(w, 1) ELSE Return(w)
  /\ UNCHANGED <<playback_active, playback_loop, pathway, spawned, after,
                 feeder_connected, robotVars, sessionVars, start_rejected, inputVars>>

\* _move_to_waypoint, robot r: `if waypoint.get('r<r>') and robot<r>.connected`
\* then move_and_wait is called and writes the move line; else the step is
\* skipped.
HasSnapshot(wp, r) == IF r = 1 THEN wp.r1 ELSE wp.r2

MovesRobot(w, r) == HasSnapshot(pathway[widx[w]], r) /\ connected[r]

\* move_and_wait returns (ok, response): the reply line classified, or the
\* except branch
MoveOutcomes ==
  { Classify(Strip(l))[1] : l \in DeviceLines \cup { <<>> } } \cup { FALSE }

\* robot 1: `if waypoint.get('r1') and self.robot1.connected:` and the call
MoveR1(w) ==
  /\ wpc[w] = "r1"
  /\ IF MovesRobot(w, 1)
     THEN /\ Goto(w, "r1_wait", widx[w], wsuccess[w], 1)
          /\ wire' = Written({1}, "MJ", "")
     ELSE /\ Goto(w, "chk2", widx[w], wsuccess[w], lastRobot[w])
          /\ UNCHANGED wire
  /\ UNCHANGED <<playback_active, playback_loop, pathway, spawned, after,
                 feeder_connected, connected, sessionVars, start_rejected, inputVars>>

\* `ok, response = self.robot1.move_and_wait(cmd)`; `else: success = False`
R1Return(w) ==
  /\ wpc[w] = "r1_wait"
  /\ \E ok \in MoveOutcomes :
       Goto(w, "chk2", widx[w], IF ok THEN wsuccess[w] ELSE FALSE, lastRobot[w])
  /\ UNCHANGED <<playback_active, playback_loop, pathway, spawned, after,
                 feeder_connected, robotVars, sessionVars, start_rejected, inputVars>>

\* (variant: the check before robot 2 left out)
CheckBeforeR2Missing(w) ==
  /\ wpc[w] = "chk2"
  /\ Goto(w, "r2", widx[w], wsuccess[w], lastRobot[w])
  /\ UNCHANGED <<playback_active, playback_loop, pathway, spawned, after,
                 feeder_connected, robotVars, sessionVars, start_rejected, inputVars>>

\* "Check if still playing before Robot 2": return False, which the loop
\* treats as a failed move
CheckBeforeR2(w) ==
  /\ wpc[w] = "chk2"
  /\ IF ~playback_active
     THEN /\ Return(w)
          /\ after' = after \o MoveFailedCallbacks(w)
     ELSE /\ Goto(w, "r2", widx[w], wsuccess[w], lastRobot[w])
          /\ UNCHANGED after
  /\ UNCHANGED <<playback_active, playback_loop, pathway, spawned,
                 feeder_connected, robotVars, sessionVars, start_rejected, inputVars>>

\* The rest of _move_to_waypoint once robot 2 is done with: the feeder step
\* (no wait), `return success`, and the loop's `if not success: ... return`.
FeederMove(w) ==
  LET delta == pathway[widx[w]].feeder - FeederPosition
  IN IF delta = 0 THEN wire
     ELSE Written({}, "", IF delta > 0 THEN "feed" ELSE "retract")

\* (variant: a waypoint whose feeder step cannot be sent counts as failed)
WaypointFinishFeederGated(w, success) ==
  /\ wire' = FeederMove(w)
  /\ IF ~success \/ (~feeder_connected /\ pathway[widx[w]].feeder # FeederPosition)
     THEN /\ Return(w)
          /\ after' = after \o MoveFailedCallbacks(w)
     ELSE /\ Goto(w, "chk3", widx[w], TRUE, lastRobot[w])
          /\ UNCHANGED after

\* (variant: the loop goes on after a failed move)
NextAfterFailure(w, success) ==
  /\ wire' = FeederMove(w)
  /\ Goto(w, "chk3", widx[w], success, lastRobot[w])
  /\ UNCHANGED after

WaypointFinish(w, success) ==
  /\ wire' = FeederMove(w)
  /\ IF ~success
     THEN /\ Return(w)
          /\ after' = after \o MoveFailedCallbacks(w)
     ELSE /\ Goto(w, "chk3", widx[w], TRUE, lastRobot[w])
          /\ UNCHANGED after

\* robot 2: `if waypoint.get('r2') and self.robot2.connected:` and the call,
\* or the step is skipped and the waypoint finishes
MoveR2(w) ==
  /\ wpc[w] = "r2"
  /\ IF MovesRobot(w, 2)
     THEN /\ Goto(w, "r2_wait", widx[w], wsuccess[w], 2)
          /\ wire' = Written({2}, "MJ", "")
          /\ UNCHANGED after
     ELSE WaypointFinish(w, wsuccess[w])
  /\ UNCHANGED <<playback_active, playback_loop, pathway, spawned,
                 feeder_connected, connected, sessionVars, start_rejected, inputVars>>

\* `ok, response = self.robot2.move_and_wait(cmd)`; `else: success = False`
R2Return(w) ==
  /\ wpc[w] = "r2_wait"
  /\ \E ok \in MoveOutcomes : WaypointFinish(w, ok /\ wsuccess[w])
  /\ UNCHANGED <<playback_active, playback_loop, pathway, spawned,
                 feeder_connected, connected, sessionVars, start_rejected, inputVars>>

\* (variant: the for loop steps over an element)
CheckAfterWaypointSkipping(w) ==
  /\ wpc[w] = "chk3"
  /\ IF ~playback_active THEN Return(w) ELSE NextWaypoint(w, widx[w] + 2)
  /\ UNCHANGED <<playback_active, playback_loop, pathway, spawned, after,
                 feeder_connected, robotVars, sessionVars, start_rejected, inputVars>>

\* `if not self.playback_active: return` after the waypoint, then the next
\* element of the for loop and its `if not self.playback_active: return`
CheckAfterWaypoint(w) ==
  /\ wpc[w] = "chk3"
  /\ IF ~playback_active THEN Return(w) ELSE NextWaypoint(w, widx[w] + 1)
  /\ UNCHANGED <<playback_active, playback_loop, pathway, spawned, after,
                 feeder_connected, robotVars, sessionVars, start_rejected, inputVars>>

\* (variant: the loop flag ignored)
LoopCheckStops(w) ==
  /\ wpc[w] = "loopchk"
  /\ Return(w)
  /\ after' = Append(after, <<"stop", w>>)
  /\ UNCHANGED <<playback_active, playback_loop, pathway, spawned,
                 feeder_connected, robotVars, sessionVars, start_rejected, inputVars>>

\* (variant: the pathway is always played again)
LoopCheckLoops(w) ==
  /\ wpc[w] = "loopchk"
  /\ Goto(w, "while", widx[w], TRUE, 0)
  /\ UNCHANGED <<after, playback_active, playback_loop, pathway, spawned,
                 feeder_connected, robotVars, sessionVars, start_rejected, inputVars>>

\* "Check if we should loop"
LoopCheck(w) ==
  /\ wpc[w] = "loopchk"
  /\ IF ~playback_loop
     THEN /\ Return(w)
          /\ after' = Append(after, <<"stop", w>>)
     ELSE /\ Goto(w, "while", widx[w], TRUE, 0)
          /\ UNCHANGED after
  /\ UNCHANGED <<playback_active, playback_loop, pathway, spawned,
                 feeder_connected, robotVars, sessionVars, start_rejected, inputVars>>

WorkerStep(w) ==
  \/ PlaybackWhile(w)
  \/ MoveR1(w)
  \/ R1Return(w)
  \/ CheckBeforeR2(w)
  \/ MoveR2(w)
  \/ R2Return(w)
  \/ CheckAfterWaypoint(w)
  \/ LoopCheck(w)

\* ------------------------------------------------------- playback: Spec
SessionIdle ==
  /\ reading = connected[1]
  /\ read_thread = (IF connected[1] THEN 1 ELSE 0)
  /\ rpc = [t \in Readers |-> IF t = 1 /\ connected[1] THEN "loop" ELSE "unborn"]
  /\ rx = <<>>
  /\ ser_timeout = ReadTimeout
  /\ last_response = <<>>
  /\ mpc = "idle"
  /\ response = <<>>
  /\ original_timeout = ReadTimeout
  /\ result = <<FALSE, <<>>>>

HistoryInit ==
  /\ lastRobot = [w \in Workers |-> 0]
  /\ stopAt = [w \in Workers |-> "none"]

ToolboxInit ==
  /\ playback_active = FALSE
  /\ playback_loop = FALSE
  /\ spawned = 0
  /\ wpc = [w \in Workers |-> "unborn"]
  /\ widx = [w \in Workers |-> 1]
  /\ wsuccess = [w \in Workers |-> TRUE]
  /\ after = <<>>
  /\ wire = [cmd |-> "", robots |-> {}, feeder |-> ""]

\* The window is up, a pathway has been captured or loaded and some of the
\* devices are connected; nothing is playing.
Init ==
  /\ ToolboxInit
  /\ pathway \in Pathways
  /\ connected \in [Robots -> BOOLEAN]
  /\ feeder_connected \in BOOLEAN
  /\ SessionIdle
  /\ HistoryInit
  /\ start_rejected = FALSE
  /\ platform = "linux"
  /\ PadInit
  /\ JogInit
  /\ ControllerInit

Next ==
  \/ PlayButton
  \/ EStopButton
  \/ ToggleLoop
  \/ RunAfter
  \/ \E w \in Workers : WorkerStep(w)

Spec == Init /\ [][Next]_vars

\* The Tk main loop keeps running queued callbacks, every thread keeps
\* running, and move_and_wait returns (by its timeout at the latest).
FairSpec ==
  /\ Spec
  /\ WF_vars(RunAfter)
  /\ \A w \in Workers : WF_vars(WorkerStep(w))

\* ------------------------------------- RobotController: SpecSession
playbackIdle == <<toolboxVars, historyVars, start_rejected, inputVars>>

\* a reader slot no thread occupies
FreeSlots == { t \in Readers : rpc[t] \in {"unborn", "dead"} }

\* threading.Thread(target=self._read_loop).start()
StartReader(t) ==
  /\ read_thread' = t
  /\ rpc' = [rpc EXCEPT ![t] = "loop"]

\* Thread.is_alive(): true until the thread's run() has ended
IsAlive(t) == rpc[t] \notin {"unborn", "dead"}

\* connect() of robot 1, the port opening without error
Connect ==
  /\ ~connected[1]
  /\ FreeSlots # {}
  /\ connected' = [connected EXCEPT ![1] = TRUE]
  /\ rx' = <<>>
  /\ ser_timeout' = ReadTimeout
  /\ reading' = TRUE
  /\ StartReader(CHOOSE t \in FreeSlots : \A u \in FreeSlots : t <= u)
  /\ UNCHANGED <<wire, last_response, mpc, response, original_timeout, result,
                 playbackIdle>>

\* _read_loop: `while self.reading and self.serial and self.serial.is_open`
ReadLoopTest(t) ==
  /\ rpc[t] = "loop"
  /\ rpc' = [rpc EXCEPT ![t] = IF reading /\ connected[1] THEN "inwait" ELSE "exiting"]
  /\ UNCHANGED <<robotVars, reading, read_thread, rx, ser_timeout,
                 last_response, mpc, response, original_timeout, result,
                 playbackIdle>>

\* the loop is left: the thread ends
ReadExit(t) ==
  /\ rpc[t] = "exiting"
  /\ rpc' = [rpc EXCEPT ![t] = "dead"]
  /\ UNCHANGED <<robotVars, reading, read_thread, rx, ser_timeout,
                 last_response, mpc, response, original_timeout, result,
                 playbackIdle>>

\* `if self.serial.in_waiting:`, else time.sleep(0.005) and round again
ReadInWaiting(t) ==
  /\ rpc[t] = "inwait"
  /\ rpc' = [rpc EXCEPT ![t] = IF rx # <<>> THEN "readline" ELSE "loop"]
  /\ UNCHANGED <<robotVars, reading, read_thread, rx, ser_timeout,
                 last_response, mpc, response, original_timeout, result,
                 playbackIdle>>

\* `line = self.serial.readline()...strip()`, `if line: self.last_response =
\* line; self._parse_response(line)`. An empty buffer gives '' at the read
\* timeout. No line of DeviceLines holds both an A and a B, so
\* _parse_response leaves the axis state alone.
ReadLine(t) ==
  /\ rpc[t] = "readline"
  /\ rpc' = [rpc EXCEPT ![t] = "loop"]
  /\ IF rx = <<>>
     THEN UNCHANGED <<rx, last_response>>
     ELSE /\ rx' = Tail(rx)
          /\ last_response' =
               IF Strip(Head(rx)) # <<>> THEN Strip(Head(rx)) ELSE last_response
  /\ UNCHANGED <<robotVars, reading, read_thread, ser_timeout, mpc, response,
                 original_timeout, result, playbackIdle>>

ReaderStep(t) ==
  \/ ReadLoopTest(t)
  \/ ReadExit(t)
  \/ ReadInWaiting(t)
  \/ ReadLine(t)

\* move_and_wait is called: `if not self.connected: return False, "Not
\* connected"`
MoveCall ==
  /\ mpc = "idle"
  /\ response' = <<>>
  /\ IF connected[1]
     THEN mpc' = "stop_reading" /\ result' = <<FALSE, <<>>>>
     ELSE mpc' = "idle" /\ result' = <<FALSE, NotConnectedText>>
  /\ UNCHANGED <<robotVars, reading, read_thread, rpc, rx, ser_timeout,
                 last_response, original_timeout, playbackIdle>>

\* `self.reading = False` (then time.sleep(0.05))
MoveStopReading ==
  /\ mpc = "stop_reading"
  /\ reading' = FALSE
  /\ mpc' = "reset"
  /\ UNCHANGED <<robotVars, read_thread, rpc, rx, ser_timeout, last_response,
                 response, original_timeout, result, playbackIdle>>

\* `self.serial.reset_input_buffer()`, or it raises
MoveReset ==
  /\ mpc = "reset"
  /\ \/ rx' = <<>> /\ mpc' = "write"
     \/ UNCHANGED rx /\ mpc' = "except"
  /\ UNCHANGED <<robotVars, reading, read_thread, rpc, ser_timeout,
                 last_response, response, original_timeout, result,
                 playbackIdle>>

\* `self.serial.write(cmd.encode()); self.serial.flush()`, or it raises
MoveWrite ==
  /\ mpc = "write"
  /\ \/ wire' = Written({1}, "MJ", "") /\ mpc' = "set_timeout"
     \/ UNCHANGED wire /\ mpc' = "except"
  /\ UNCHANGED <<connected, reading, read_thread, rpc, rx, ser_timeout,
                 last_response, response, original_timeout, result,
                 playbackIdle>>

\* `original_timeout = self.serial.timeout; self.serial.timeout = timeout`
MoveSetTimeout ==
  /\ mpc = "set_timeout"
  /\ original_timeout' = ser_timeout
  /\ ser_timeout' = MoveTimeout
  /\ mpc' = "readline"
  /\ UNCHANGED <<robotVars, reading, read_thread, rpc, rx, last_response,
                 response, result, playbackIdle>>

\* `response = self.serial.readline()...strip()`: the next line of the
\* buffer, '' when the timeout passes with the buffer empty, or it raises
MoveReadline ==
  /\ mpc = "readline"
  /\ \/ /\ rx # <<>>
        /\ response' = Strip(Head(rx))
        /\ rx' = Tail(rx)
        /\ mpc' = "restore"
     \/ /\ rx = <<>>
        /\ response' = <<>>
        /\ UNCHANGED rx
        /\ mpc' = "restore"
     \/ /\ UNCHANGED <<rx, response>>
        /\ mpc' = "except"
  /\ UNCHANGED <<robotVars, reading, read_thread, rpc, ser_timeout,
                 last_response, original_timeout, result, playbackIdle>>

\* `self.serial.timeout = original_timeout`
MoveRestore ==
  /\ mpc = "restore"
  /\ ser_timeout' = original_timeout
  /\ mpc' = "resume"
  /\ UNCHANGED <<robotVars, reading, read_thread, rpc, rx, last_response,
                 response, original_timeout, result, playbackIdle>>

\* `self.reading = True`
MoveResume ==
  /\ mpc = "resume"
  /\ reading' = TRUE
  /\ mpc' = "restart"
  /\ UNCHANGED <<robotVars, read_thread, rpc, rx, ser_timeout, last_response,
                 response, original_timeout, result, playbackIdle>>

\* `if self.read_thread is None or not self.read_thread.is_alive():` start a
\* new reader thread
MoveRestart ==
  /\ mpc = "restart"
  /\ IF read_thread = 0 \/ ~IsAlive(read_thread)
     THEN /\ FreeSlots # {}
          /\ StartReader(CHOOSE t \in FreeSlots : \A u \in FreeSlots : t <= u)
     ELSE UNCHANGED <<read_thread, rpc>>
  /\ mpc' = "classify"
  /\ UNCHANGED <<robotVars, reading, rx, ser_timeout, last_response, response,
                 original_timeout, result, playbackIdle>>

\* the final if / elif / else: the value returned, and last_response on
\* success
MoveClassify ==
  /\ mpc = "classify"
  /\ result' = Classify(response)
  /\ last_response' = IF Classify(response)[1] THEN response ELSE last_response
  /\ mpc' = "idle"
  /\ UNCHANGED <<robotVars, reading, read_thread, rpc, rx, ser_timeout,
                 response, original_timeout, playbackIdle>>

\* `except Exception as e: self.reading = True; return False, str(e)`
MoveExcept ==
  /\ mpc = "except"
  /\ reading' = TRUE
  /\ result' = <<FALSE, ExceptionText>>
  /\ mpc' = "idle"
  /\ UNCHANGED <<robotVars, read_thread, rpc, rx, ser_timeout, last_response,
                 response, original_timeout, playbackIdle>>

MoveAndWait ==
  \/ MoveCall
  \/ MoveStopReading
  \/ MoveReset
  \/ MoveWrite
  \/ MoveSetTimeout
  \/ MoveReadline
  \/ MoveRestore
  \/ MoveResume
  \/ MoveRestart
  \/ MoveClassify
  \/ MoveExcept

\* RobotController.emergency_stop and get_position, called from another
\* thread: send("ES"), send("GP")
RobotSend(cmd) ==
  /\ connected[1]
  /\ wire' = Written({1}, cmd, "")
  /\ UNCHANGED <<connected, sessionVars, playbackIdle>>

\* The device puts a line on the wire: telemetry, or the reply to a command.
DeviceEmit ==
  /\ connected[1]
  /\ Len(rx) < MaxRx
  /\ \E l \in DeviceLines : rx' = Append(rx, l)
  /\ UNCHANGED <<robotVars, reading, read_thread, rpc, ser_timeout,
                 last_response, mpc, response, original_timeout, result,
                 playbackIdle>>

\* After construction: RobotController.__init__, nothing connected.
SessionInit ==
  /\ ToolboxInit
  /\ HistoryInit
  /\ pathway = <<>>
  /\ connected = [r \in Robots |-> FALSE]
  /\ feeder_connected = FALSE
  /\ SessionIdle
  /\ start_rejected = FALSE
  /\ platform = "linux"
  /\ PadInit
  /\ JogInit
  /\ ControllerInit

SessionNext ==
  \/ Connect
  \/ \E t \in Readers : ReaderStep(t)
  \/ MoveAndWait
  \/ \E cmd \in {"ES", "GP"} : RobotSend(cmd)
  \/ DeviceEmit

SpecSession == SessionInit /\ [][SessionNext]_vars

\* ------------------------------------ RobotController: SpecReaders
\* connect() of robot 1 while it is connected: the port is opened again and
\* one more reader thread is started
Reconnect ==
  /\ connected[1]
  /\ FreeSlots # {}
  /\ rx' = <<>>
  /\ ser_timeout' = ReadTimeout
  /\ reading' = TRUE
  /\ StartReader(CHOOSE t \in FreeSlots : \A u \in FreeSlots : t <= u)
  /\ UNCHANGED <<robotVars, last_response, mpc, response, original_timeout,
                 result, playbackIdle>>

\* disconnect() of robot 1: `self.reading = False`, stop_jog(), the port is
\* closed, `self.connected = False`; no thread is joined
Disconnect ==
  /\ reading' = FALSE
  /\ jogging' = FALSE
  /\ wire' = Written({1}, "S", "")
  /\ rx' = <<>>
  /\ connected' = [connected EXCEPT ![1] = FALSE]
  /\ UNCHANGED <<read_thread, rpc, ser_timeout, last_response, mpc, response,
                 original_timeout, result, toolboxVars, historyVars,
                 start_rejected, padVars, jogVars, commandVars, feedbackVars,
                 port_ok, tx, ret>>

ReadersNext ==
  \/ Connect
  \/ Reconnect
  \/ Disconnect
  \/ \E t \in Readers : ReaderStep(t)
  \/ MoveAndWait
  \/ DeviceEmit

SpecReaders == SessionInit /\ [][ReadersNext]_vars

\* ------------------------------------------------- jogging: SpecJog
\* What no handler of the polling thread touches.
jogFrame == <<toolboxVars, connected, sessionVars, historyVars, start_rejected,
              controllerVars>>

\* A handler that writes nothing and leaves self.current_jog alone.
Quiet ==
  /\ jog_out' = NoOut
  /\ UNCHANGED <<current_jog, sinceStop, wire>>

\* _jog_dpad: the jog of a D-pad direction in the current move mode
DpadJog(b) ==
  IF move_mode = MOVE_JOINT
  THEN CASE b = "DPAD_UP" -> JointJog(5, -1)
         [] b = "DPAD_DOWN" -> JointJog(5, 1)
         [] b = "DPAD_LEFT" -> JointJog(6, -1)
         [] b = "DPAD_RIGHT" -> JointJog(6, 1)
  ELSE CASE b = "DPAD_UP" -> CartJog("Rx", 1)
         [] b = "DPAD_DOWN" -> CartJog("Rx", -1)
         [] b = "DPAD_LEFT" -> CartJog("Ry", -1)
         [] b = "DPAD_RIGHT" -> CartJog("Ry", 1)

\* _jog_j9: nothing without the feeder, else the feeder jogs
JogJ9(d) ==
  IF ~feeder_connected THEN Quiet
  ELSE Emit(FALSE, FeederJog(d), JointJog(9, d))

\* _on_button_press(button), operation mode Move
OnButtonPress(b) ==
  /\ device_mode' = IF b = "BACK" THEN (device_mode + 1) % 3 ELSE device_mode
  /\ move_mode' = IF b = "A" THEN MOVE_JOINT
                  ELSE IF b = "B" THEN MOVE_CARTESIAN
                  ELSE move_mode
  /\ CASE b = "BACK" -> Emit(TRUE, NoWrite, NoJog)
       [] b \in {"A", "B"} -> Quiet
       [] b = "X" -> Emit(FALSE, RobotJog(JointJog(7, -1), speed), JointJog(7, -1))
       [] b = "Y" -> Emit(FALSE, RobotJog(JointJog(7, 1), speed), JointJog(7, 1))
       [] b = "LB" -> JogJ9(-1)
       [] b = "RB" -> JogJ9(1)
       [] b \in DpadButtons -> Emit(FALSE, RobotJog(DpadJog(b), speed), DpadJog(b))

\* _on_button_release(button)
OnButtonRelease(b) ==
  /\ IF b \in JogButtons THEN Emit(TRUE, NoWrite, NoJog) ELSE Quiet
  /\ UNCHANGED <<device_mode, move_mode>>

\* (variant: sticks at rest leave a jog alone)
StickRestKeepsJog ==
  Quiet

\* (variant: the stop waits for the resend interval)
StickRestStopsThrottled ==
  IF current_jog # NoJog /\ sinceSend > ResendAfter
  THEN Emit(TRUE, NoWrite, NoJog) ELSE Quiet

\* _on_stick_move with every axis below the deadzone: "ALWAYS stop jogging"
StickRestStops ==
  IF current_jog # NoJog THEN Emit(TRUE, NoWrite, NoJog) ELSE Quiet

\* (variant: resend at every evaluation)
ResendDueAlways == TRUE

\* (now - self._last_jog_send) > 0.5
ResendDue == sinceSend > ResendAfter

\* _on_stick_move(left_stick, right_stick), called by the polling thread
StickTick ==
  /\ ppc = "stick"
  /\ ppc' = "trigger"
  /\ IF AtRest(sticks)
     THEN StickRestStops /\ UNCHANGED sinceSend
     ELSE LET new_jog == NewJog(sticks, move_mode)
          IN IF new_jog # current_jog
             THEN /\ Emit(current_jog # NoJog, RobotJog(new_jog, speed), new_jog)
                  /\ sinceSend' = 0
             ELSE IF ResendDue
             THEN /\ Emit(FALSE, RobotJog(new_jog, speed), new_jog)
                  /\ sinceSend' = 0
             ELSE Quiet /\ UNCHANGED sinceSend
  /\ UNCHANGED <<platform, buttons, prev_buttons, sticks, triggers, pressed,
                 released, device_mode, move_mode, speed, speed_changes,
                 sinceCool, jogFrame>>

\* _on_trigger: the speed after this call
NewSpeed ==
  LET up == IF speed + SpeedStep > 100 THEN 100 ELSE speed + SpeedStep
      down == IF speed - SpeedStep < 1 THEN 1 ELSE speed - SpeedStep
  IN IF triggers[2] > TriggerThreshold /\ up # speed THEN up
     ELSE IF triggers[1] > TriggerThreshold /\ down # speed THEN down
     ELSE speed

\* (variant: no cooldown between two changes)
InCooldownNever == FALSE

\* _on_trigger: `if now - self._trigger_cooldown < 0.15: return`
InCooldown == sinceCool < TriggerCooldown

\* _on_trigger(left_trigger, right_trigger), called by the polling thread;
\* a behaviour follows at most `cap` changes of the speed.
OnTrigger(cap) ==
  /\ ppc = "trigger"
  /\ ppc' = "idle"
  /\ IF InCooldown \/ NewSpeed = speed
     THEN Quiet /\ UNCHANGED <<speed, speed_changes, sinceCool>>
     ELSE /\ speed_changes < cap
          /\ speed' = NewSpeed
          /\ speed_changes' = speed_changes + 1
          /\ sinceCool' = 0
          /\ IF current_jog # NoJog
             THEN Emit(FALSE, RobotJog(current_jog, NewSpeed), current_jog)
             ELSE Quiet
  /\ UNCHANGED <<platform, buttons, prev_buttons, sticks, triggers, pressed,
                 released, device_mode, move_mode, sinceSend, jogFrame>>

TriggerTick == OnTrigger(MaxSpeedChanges)

\* get_gamepad() blocks, time.sleep(0.008): time passes between two rounds
\* of the polling loop.
Later(t) == IF t + TimeStep > MaxElapsed THEN MaxElapsed ELSE t + TimeStep

TimePasses ==
  /\ ppc = "idle"
  /\ sinceSend < MaxElapsed \/ sinceCool < MaxElapsed
  /\ sinceSend' = Later(sinceSend)
  /\ sinceCool' = Later(sinceCool)
  /\ UNCHANGED <<padVars, current_jog, sinceStop, device_mode, move_mode, speed,
                 speed_changes, jog_out, wire, jogFrame>>

\* What the rest of a round of the loop leaves alone after a button event.
buttonFrame == <<platform, prev_buttons, sticks, triggers, pressed, released,
                 speed, speed_changes, sinceSend, sinceCool, jogFrame>>

\* _poll_linux, `if event.code in BTN_MAP`: a key goes down (event.state 1)
LinuxKeyDown(b) ==
  /\ platform = "linux" /\ ppc = "idle"
  /\ b \in KeyButtons \ buttons
  /\ Cardinality(buttons) < MaxHeld
  /\ buttons' = buttons \cup {b}
  /\ OnButtonPress(b)
  /\ ppc' = "stick"
  /\ UNCHANGED buttonFrame

\* a key goes up
LinuxKeyUp(b) ==
  /\ platform = "linux" /\ ppc = "idle"
  /\ b \in KeyButtons \cap buttons
  /\ buttons' = buttons \ {b}
  /\ OnButtonRelease(b)
  /\ ppc' = "stick"
  /\ UNCHANGED buttonFrame

\* The two buttons of a hat axis: the one of event.state -1, the one of 1.
HatButtons(axis) ==
  IF axis = "ABS_HAT0X" THEN <<"DPAD_LEFT", "DPAD_RIGHT">>
  ELSE <<"DPAD_UP", "DPAD_DOWN">>

HatState(axis) ==
  IF HatButtons(axis)[1] \in buttons THEN -1
  ELSE IF HatButtons(axis)[2] \in buttons THEN 1
  ELSE 0

\* _poll_linux, ABS_HAT0X / ABS_HAT0Y: both buttons of the axis are
\* discarded; state -1 or 1 adds one and calls on_button_press; state 0
\* calls nothing.
LinuxHat(axis, state) ==
  /\ platform = "linux" /\ ppc = "idle"
  /\ state # HatState(axis)
  /\ LET cleared == buttons \ {HatButtons(axis)[1], HatButtons(axis)[2]}
     IN IF state = 0
        THEN /\ buttons' = cleared
             /\ Quiet
             /\ UNCHANGED <<device_mode, move_mode>>
        ELSE LET b == IF state = -1 THEN HatButtons(axis)[1] ELSE HatButtons(axis)[2]
             IN /\ Cardinality(cleared) < MaxHeld
                /\ buttons' = cleared \cup {b}
                /\ OnButtonPress(b)
  /\ ppc' = "stick"
  /\ UNCHANGED buttonFrame

\* Two stick positions differ in one axis.
OneAxisApart(s, t) == Cardinality({ i \in 1..4 : s[i] # t[i] }) = 1

\* What an event without button leaves alone.
axisFrame == <<platform, buttons, prev_buttons, pressed, released, jogVars,
               wire, jogFrame>>

\* _poll_linux, ABS_X / ABS_Y / ABS_RX / ABS_RY: one stick axis changes
LinuxStick(s) ==
  /\ platform = "linux" /\ ppc = "idle"
  /\ OneAxisApart(sticks, s)
  /\ sticks' = s
  /\ ppc' = "stick"
  /\ UNCHANGED <<triggers, axisFrame>>

\* _poll_linux, ABS_Z / ABS_RZ: one trigger changes
LinuxTrigger(t) ==
  /\ platform = "linux" /\ ppc = "idle"
  /\ (t[1] = triggers[1]) # (t[2] = triggers[2])
  /\ triggers' = t
  /\ ppc' = "stick"
  /\ UNCHANGED <<sticks, axisFrame>>

\* _poll_linux, an event of another code (SYN_REPORT closes every report):
\* only the two callbacks at the end of the round run
LinuxSync ==
  /\ platform = "linux" /\ ppc = "idle"
  /\ ppc' = "stick"
  /\ UNCHANGED <<sticks, triggers, axisFrame>>

\* The polling thread goes on after the button handlers of a poll.
AfterButtons(p, r) ==
  IF p # {} THEN "press" ELSE IF r # {} THEN "release" ELSE "stick"

\* _poll_windows, normalize(val, deadzone=8000) of a raw axis value, here in
\* hundredths of full deflection
Normalize(v) == IF Abs(v) * 32767 < 8000 * 100 THEN 0 ELSE v

\* The pad is polled every 8 ms: between two polls at most one control has
\* moved (a button went down or up, one stick axis or one trigger changed).
OneControlApart(new_buttons, s, t) ==
  LET b == Cardinality((new_buttons \ buttons) \cup (buttons \ new_buttons))
      a == Cardinality({ i \in 1..4 : Normalize(s[i]) # sticks[i] })
      g == Cardinality({ i \in 1..2 : t[i] # triggers[i] })
  IN b + a + g <= 1

\* _poll_windows: XInputGetState gives the pad's state; pressed and released
\* are taken against self.prev_buttons; `self.prev_buttons = self.buttons;
\* self.buttons = new_buttons` (no handler reads either); the sticks and
\* triggers of the same state are stored for the callbacks.
WinPoll(new_buttons, s, t) ==
  /\ platform = "win32" /\ ppc = "idle"
  /\ Cardinality(new_buttons) <= MaxHeld
  /\ OneControlApart(new_buttons, s, t)
  /\ pressed' = new_buttons \ prev_buttons
  /\ released' = prev_buttons \ new_buttons
  /\ prev_buttons' = buttons
  /\ buttons' = new_buttons
  /\ sticks' = [i \in 1..4 |-> Normalize(s[i])]
  /\ triggers' = t
  /\ ppc' = AfterButtons(pressed', released')
  /\ UNCHANGED <<platform, jogVars, wire, jogFrame>>

\* `for btn in pressed: self.on_button_press(btn)`, in the set's order
WinPress(b) ==
  /\ ppc = "press"
  /\ b \in pressed
  /\ pressed' = pressed \ {b}
  /\ OnButtonPress(b)
  /\ ppc' = AfterButtons(pressed', released)
  /\ UNCHANGED <<platform, buttons, prev_buttons, sticks, triggers, released,
                 speed, speed_changes, sinceSend, sinceCool, jogFrame>>

\* `for btn in released: self.on_button_release(btn)`
WinRelease(b) ==
  /\ ppc = "release"
  /\ b \in released
  /\ released' = released \ {b}
  /\ OnButtonRelease(b)
  /\ ppc' = AfterButtons({}, released')
  /\ UNCHANGED <<platform, buttons, prev_buttons, sticks, triggers, pressed,
                 speed, speed_changes, sinceSend, sinceCool, jogFrame>>

\* The sets of buttons held at once.
HeldSets == { S \in SUBSET Buttons : Cardinality(S) <= MaxHeld }

\* One step of the polling thread.
PollStep ==
  \/ \E b \in Buttons : LinuxKeyDown(b) \/ LinuxKeyUp(b)
  \/ \E axis \in {"ABS_HAT0X", "ABS_HAT0Y"}, state \in {-1, 0, 1} : LinuxHat(axis, state)
  \/ \E s \in StickPositions : LinuxStick(s)
  \/ \E t \in TriggerPositions : LinuxTrigger(t)
  \/ LinuxSync
  \/ \E nb \in HeldSets, s \in StickPositions, t \in TriggerPositions :
       WinPoll(nb, s, t)
  \/ \E b \in Buttons : WinPress(b) \/ WinRelease(b)
  \/ StickTick
  \/ TriggerTick

\* Connection states of the jogging behaviours: everything connected; robot 2
\* and the feeder missing.
JogConnections ==
  { <<[r \in Robots |-> TRUE], TRUE>>,
    <<[r \in Robots |-> r = 1], FALSE>> }

\* The window is up, some devices are connected, the controller is polled
\* on one of the two platforms; no pathway, nothing playing.
JogInitial ==
  /\ ToolboxInit
  /\ HistoryInit
  /\ pathway = <<>>
  /\ \E c \in JogConnections : connected = c[1] /\ feeder_connected = c[2]
  /\ SessionIdle
  /\ start_rejected = FALSE
  /\ platform \in {"linux", "win32"}
  /\ PadInit
  /\ JogInit
  /\ ControllerInit

JogNext ==
  \/ PollStep
  \/ TimePasses

SpecJog == JogInitial /\ [][JogNext]_vars

\* ------------------------------------------------ jogging: SpecStick
\* Values of one stick axis, hundredths of full deflection: both sides of
\* the deadzone, the deadzone itself, equal magnitudes of both signs.
AxisValues == {-60, -25, 0, 10, 25, 60}

\* One evaluation of the sticks: the polling thread is about to call
\* on_stick_move with some stick and trigger positions, in either move mode,
\* no jog recorded.
StickInitial ==
  /\ ToolboxInit
  /\ HistoryInit
  /\ pathway = <<>>
  /\ connected = [r \in Robots |-> TRUE]
  /\ feeder_connected = TRUE
  /\ SessionIdle
  /\ start_rejected = FALSE
  /\ platform = "linux"
  /\ buttons = {} /\ prev_buttons = {} /\ pressed = {} /\ released = {}
  /\ sticks \in [1..4 -> AxisValues]
  /\ triggers \in TriggerPositions
  /\ ppc = "stick"
  /\ current_jog = NoJog
  /\ device_mode = MODE_ROBOT1
  /\ move_mode \in {MOVE_JOINT, MOVE_CARTESIAN}
  /\ speed = DEFAULT_SPEED
  /\ speed_changes = 0
  /\ sinceSend = MaxElapsed
  /\ sinceCool = MaxElapsed
  /\ jog_out = NoOut
  /\ sinceStop = {}
  /\ ControllerInit

StickNext ==
  \/ StickTick
  \/ TriggerTick

SpecStick == StickInitial /\ [][StickNext]_vars

\* ----------------------------------------------- jogging: SpecTrigger
\* Trigger positions of the speed behaviours, hundredths of full travel:
\* released, at the threshold, just above it, fully pressed.
TriggerValues == {0, 20, 21, 100}
\* Speeds the behaviours start from: both ends, next to both ends, default.
StartSpeeds == {1, 3, DEFAULT_SPEED, 98, 100}
\* time.time() of _on_trigger is read on a grid of 0.05 s.
CooldownStep == 5

\* The polling thread is about to call on_trigger with some trigger values.
TriggerCall(t) ==
  /\ ppc = "idle"
  /\ triggers' = t
  /\ ppc' = "trigger"
  /\ UNCHANGED <<platform, buttons, prev_buttons, sticks, pressed, released,
                 jogVars, wire, jogFrame>>

\* _on_trigger as often as the bound MaxTriggerChanges lets the speed change
TriggerEvent == OnTrigger(MaxTriggerChanges)

\* Time passes between two calls of on_trigger.
TriggerClock ==
  /\ ppc = "idle"
  /\ sinceCool < MaxElapsed
  /\ sinceCool' = (IF sinceCool + CooldownStep > MaxElapsed THEN MaxElapsed
                   ELSE sinceCool + CooldownStep)
  /\ UNCHANGED <<padVars, current_jog, sinceStop, device_mode, move_mode, speed,
                 speed_changes, sinceSend, jog_out, wire, jogFrame>>

TriggerInitial ==
  /\ ToolboxInit
  /\ HistoryInit
  /\ pathway = <<>>
  /\ connected = [r \in Robots |-> TRUE]
  /\ feeder_connected = TRUE
  /\ SessionIdle
  /\ start_rejected = FALSE
  /\ platform = "linux"
  /\ PadInit
  /\ current_jog \in {NoJog, JointJog(1, 1)}
  /\ device_mode = MODE_ROBOT1
  /\ move_mode = MOVE_JOINT
  /\ speed \in StartSpeeds
  /\ speed_changes = 0
  /\ sinceSend = MaxElapsed
  /\ sinceCool = MaxElapsed
  /\ jog_out = NoOut
  /\ sinceStop = {}
  /\ ControllerInit

TriggerNext ==
  \/ \E t \in TriggerValues \X TriggerValues : TriggerCall(t)
  \/ TriggerEvent
  \/ TriggerClock

SpecTrigger == TriggerInitial /\ [][TriggerNext]_vars

\* ----------------------------------------------- commands: SpecCommand
\* Axis values of a snapshot, in ten-thousandths.
SnapshotJoints == <<100000, -200000, 300000, 0, 450000, 12346>>
\* Cartesian parts of a snapshot: all zero (nothing decoded yet), only Rz
\* non-zero, only a tiny Rx, six different values.
SnapshotCartesians ==
  { <<0, 0, 0, 0, 0, 0>>,
    <<0, 0, 0, 0, 0, 900000>>,
    <<0, 0, 0, 3, 0, 0>>,
    <<2500000, -1234567, 3000004, 1800000, -900000, 450006>> }
\* _capture_waypoint: {'joints': ..., 'cartesian': ..., 'j7': ...} or None
Snapshots ==
  { [joints |-> SnapshotJoints, cartesian |-> c] : c \in SnapshotCartesians }
    \cup {NoSnapshot}
\* Speeds and smoothness values every value of the other one is paired with.
SpeedSamples == {1, DEFAULT_SPEED, 100}
SmoothnessSamples == {1, 50, 100}

\* RobotController.jog_joint(1, 1, speed) of robot 1: the line it builds
JogJointCall ==
  /\ connected[1]
  /\ cmd_out' = [cmd_out EXCEPT ![1] = JogLine(JointJog(1, 1), speed)]
  /\ UNCHANGED <<smoothness, snapshot, trainVars, feedbackVars, deviceVars>>

\* A speed 0..100 and a smoothness 1..100 are set, a waypoint is captured.
CommandInitial ==
  /\ ToolboxInit
  /\ HistoryInit
  /\ pathway = <<>>
  /\ connected \in { [r \in Robots |-> TRUE], [r \in Robots |-> r = 1] }
  /\ feeder_connected = TRUE
  /\ SessionIdle
  /\ start_rejected = FALSE
  /\ platform = "linux"
  /\ PadInit
  /\ current_jog = NoJog
  /\ device_mode = MODE_ROBOT1
  /\ move_mode = MOVE_JOINT
  /\ \E sp \in 0..100, sm \in 1..100 :
       /\ sp \in SpeedSamples \/ sm \in SmoothnessSamples
       /\ speed = sp
       /\ smoothness = sm
  /\ speed_changes = 0
  /\ sinceSend = MaxElapsed
  /\ sinceCool = MaxElapsed
  /\ jog_out = NoOut
  /\ sinceStop = {}
  /\ snapshot \in [Robots -> Snapshots]
  /\ \E r \in Robots : snapshot[r] # NoSnapshot
  /\ cmd_out = [r \in Robots |-> NoCommand]
  /\ operation_mode = OP_MOVE
  /\ saved = NoFile
  /\ line = <<>>
  /\ joints = [i \in 1..6 |-> 0]
  /\ cartesian = [i \in 1..6 |-> 0]
  /\ j7_pos = 0
  /\ jogging = FALSE
  /\ port_ok = TRUE
  /\ tx = <<>>
  /\ ret = "none"

CommandNext ==
  \/ /\ BuildMoves
     /\ UNCHANGED <<toolboxVars, robotVars, sessionVars, historyVars,
                    start_rejected, padVars, jogVars>>
  \/ /\ JogJointCall
     /\ UNCHANGED <<toolboxVars, robotVars, sessionVars, historyVars,
                    start_rejected, padVars, jogVars>>

SpecCommand == CommandInitial /\ [][CommandNext]_vars

\* ------------------------------------------------- feedback: SpecDecode
\* The markers of a feedback line, A{j1}B{j2}...L{Rx}M...P{j7}Q{j8}R{j9}
AllMarkers ==
  <<"A", "B", "C", "D", "E", "F", "G", "H", "I", "J", "K", "L", "M", "P", "Q", "R">>
\* The text after each marker of the feedback line the others are made from
BaseTexts ==
  << <<"1">>, <<"2">>, <<"3">>, <<"4">>, <<"5">>, <<"6">>, <<"7">>, <<"8">>,
     <<"9">>, <<"1", "0">>, <<"1", "1">>, <<"1", "2">>, <<"0">>,
     <<"1", "3">>, <<"1", "4">>, <<"1", "5">> >>
\* The texts _parse_response reads: after A..L and after P
FieldSlots == (1..12) \cup {14}
\* Other texts of a field: a negative decimal, a letter, nothing, a decimal
AltTexts == { <<"-", "7", ".", "2", "5">>, <<"x">>, <<>>, <<"0", ".", "5">> }

\* The line of the markers from the k-th on, each followed by its text,
\* without the markers in `dropped`.
RECURSIVE LineOf(_, _, _)
LineOf(texts, dropped, k) ==
  IF k > Len(AllMarkers) THEN <<>>
  ELSE (IF k \in dropped THEN <<>> ELSE <<AllMarkers[k]>>)
         \o texts[k] \o LineOf(texts, dropped, k + 1)

\* Lines the device sends: the full line, one text replaced, one marker
\* lost, one marker lost with its text.
FeedbackLines ==
  { LineOf(BaseTexts, {}, 1) }
    \cup { LineOf([BaseTexts EXCEPT ![k] = t], {}, 1) : k \in FieldSlots, t \in AltTexts }
    \cup { LineOf(BaseTexts, {m}, 1) : m \in 1..Len(AllMarkers) }
    \cup { LineOf([BaseTexts EXCEPT ![m] = <<>>], {m}, 1) : m \in 1..Len(AllMarkers) }
\* The full line the device sends afterwards, with other values
NextLines == { LineOf([k \in 1..Len(AllMarkers) |-> <<"2">> \o BaseTexts[k]], {}, 1) }

\* _read_loop: `if line: self.last_response = line;
\* self._parse_response(line)`, with whatever _parse_response raises caught
ReadDecode ==
  /\ ret = "none"
  /\ line # <<>>
  /\ last_response' = line
  /\ LET st == ParseResponse(line, AxisState)
     IN /\ joints' = st.joints
        /\ cartesian' = st.cartesian
        /\ j7_pos' = st.j7_pos
        /\ ret' = IF st.caught THEN "caught" ELSE "ok"
  /\ UNCHANGED <<toolboxVars, robotVars, reading, read_thread, rpc, rx,
                 ser_timeout, mpc, response, original_timeout, result,
                 historyVars, start_rejected, padVars, jogVars, commandVars,
                 line, jogging, port_ok, tx>>

\* _read_loop: the next round of the loop reads the next line
ReadNext(l) ==
  /\ ret # "none"
  /\ line \notin NextLines
  /\ line' = l
  /\ ret' = "none"
  /\ UNCHANGED <<toolboxVars, robotVars, sessionVars, historyVars,
                 start_rejected, padVars, jogVars, commandVars, joints,
                 cartesian, j7_pos, jogging, port_ok, tx>>

\* A connected robot whose reader has read a line; the axis state holds
\* values no line carries.
DecodeInitial ==
  /\ ToolboxInit
  /\ HistoryInit
  /\ pathway = <<>>
  /\ connected = [r \in Robots |-> TRUE]
  /\ feeder_connected = TRUE
  /\ SessionIdle
  /\ start_rejected = FALSE
  /\ platform = "linux"
  /\ PadInit
  /\ JogInit
  /\ smoothness = 50
  /\ snapshot = [r \in Robots |-> NoSnapshot]
  /\ cmd_out = [r \in Robots |-> NoCommand]
  /\ operation_mode = OP_MOVE
  /\ saved = NoFile
  /\ line \in FeedbackLines
  /\ joints = [i \in 1..6 |-> -1000 * i]
  /\ cartesian = [i \in 1..6 |-> -1000 * (10 + i)]
  /\ j7_pos = -99000
  /\ jogging = FALSE
  /\ port_ok = TRUE
  /\ tx = <<>>
  /\ ret = "none"

DecodeNext ==
  \/ ReadDecode
  \/ \E l \in NextLines : ReadNext(l)

SpecDecode == DecodeInitial /\ [][DecodeNext]_vars

\* ------------------------------------------- RobotController: SpecDevice
\* The methods of the RobotController of robot 1, one step per call. tx holds
\* the lines written to its serial port, ret what send and the methods built
\* on it returned last, result what move_and_wait returned last.
deviceFrame == <<toolboxVars, wire, read_thread, rpc, rx, ser_timeout, mpc,
                 response, original_timeout, historyVars, start_rejected,
                 padVars, jogVars, commandVars>>

\* (variant: a command written to the port resets the joints kept)
SendResetsAxes(c) ==
  /\ IF connected[1] /\ port_ok
     THEN /\ Len(tx) < MaxTx
          /\ tx' = Append(tx, c)
          /\ ret' = "True"
          /\ joints' = [i \in 1..6 |-> 0]
     ELSE /\ tx' = tx
          /\ ret' = "False"
          /\ joints' = joints
  /\ UNCHANGED <<connected, reading, last_response, result, port_ok, line,
                 cartesian, j7_pos, deviceFrame>>

\* send(command): `if not self.connected: return False`; write and flush,
\* `return True`; `except: return False`
Send(c) ==
  /\ IF connected[1] /\ port_ok
     THEN /\ Len(tx) < MaxTx
          /\ tx' = Append(tx, c)
          /\ ret' = "True"
     ELSE /\ tx' = tx
          /\ ret' = "False"
  /\ UNCHANGED <<connected, reading, last_response, result, port_ok,
                 feedbackVars, deviceFrame>>

\* send(command) called directly
SendCall == Send([cmd |-> "GP"]) /\ UNCHANGED jogging

\* stop_jog
StopJog == jogging' = FALSE /\ Send([cmd |-> "S"])

\* emergency_stop
EmergencyStop == jogging' = FALSE /\ Send([cmd |-> "ES"])

\* get_position
GetPosition == Send([cmd |-> "GP"]) /\ UNCHANGED jogging

\* jog_joint(joint, direction, speed)
JogJoint(j, d) == jogging' = TRUE /\ Send(JogLine(JointJog(j, d), speed))

\* jog_cartesian(axis, direction, speed): `if axis not in axis_map: return
\* False`
JogCartesian(axis, d) ==
  IF axis \in DOMAIN axis_map
  THEN jogging' = TRUE /\ Send(JogLine(CartJog(axis, d), speed))
  ELSE /\ ret' = "False"
       /\ UNCHANGED <<connected, reading, last_response, result, port_ok,
                      feedbackVars, deviceFrame, jogging, tx>>

\* jog_j7(direction, speed)
JogJ7(d) == jogging' = TRUE /\ Send(JogLine(JointJog(7, d), speed))

\* move_and_wait(command), the whole call: not connected; the port raises
\* before or after the write; a reply or none arrives.
MoveAndWaitCall ==
  /\ IF ~connected[1]
     THEN /\ result' = <<FALSE, NotConnectedText>>
          /\ UNCHANGED <<reading, last_response, port_ok, tx>>
     ELSE IF ~port_ok
     THEN /\ result' = <<FALSE, ExceptionText>>
          /\ reading' = TRUE
          /\ UNCHANGED <<last_response, port_ok, tx>>
     ELSE /\ Len(tx) < MaxTx
          /\ tx' = Append(tx, [cmd |-> "MJ"])
          /\ reading' = TRUE
          /\ \/ /\ port_ok' = FALSE
                /\ result' = <<FALSE, ExceptionText>>
                /\ UNCHANGED last_response
             \/ \E l \in DeviceLines \cup {<<>>} :
                  /\ result' = Classify(Strip(l))
                  /\ last_response' =
                       IF Classify(Strip(l))[1] THEN Strip(l) ELSE last_response
                  /\ UNCHANGED port_ok
  /\ UNCHANGED <<connected, jogging, ret, feedbackVars, deviceFrame>>

\* A command method of the controller is called.
DeviceCommand ==
  \/ SendCall
  \/ StopJog
  \/ EmergencyStop
  \/ GetPosition
  \/ \E d \in {-1, 1} : JogJoint(1, d)
  \/ \E axis \in {"X", "W"} : JogCartesian(axis, 1)
  \/ JogJ7(1)

\* connect(): the port opens, or serial.Serial raises SerialException
DeviceConnect ==
  /\ ~connected[1]
  /\ \/ /\ connected' = [connected EXCEPT ![1] = TRUE]
        /\ reading' = TRUE
        /\ port_ok' = TRUE
        /\ tx' = <<>>
        /\ ret' = "True"
     \/ /\ ret' = "False"
        /\ UNCHANGED <<connected, reading, port_ok, tx>>
  /\ UNCHANGED <<last_response, result, jogging, feedbackVars, deviceFrame>>

\* disconnect(): `self.reading = False`, stop_jog(), close,
\* `self.connected = False`
DeviceDisconnect ==
  /\ connected[1]
  /\ reading' = FALSE
  /\ jogging' = FALSE
  /\ IF port_ok
     THEN Len(tx) < MaxTx /\ tx' = Append(tx, [cmd |-> "S"])
     ELSE tx' = tx
  /\ ret' = "none"
  /\ connected' = [connected EXCEPT ![1] = FALSE]
  /\ UNCHANGED <<last_response, result, port_ok, feedbackVars, deviceFrame>>

\* The cable is pulled: from now on write and readline raise.
PortFails ==
  /\ connected[1] /\ port_ok
  /\ port_ok' = FALSE
  /\ UNCHANGED <<connected, reading, last_response, result, jogging, tx, ret,
                 feedbackVars, deviceFrame>>

\* Lines the device sends on its own: a full feedback line, a plain line.
Telemetry == { LineOf(BaseTexts, {}, 1), <<"k">> }

\* _read_loop while self.reading: a line is read and decoded
Feedback(l) ==
  /\ connected[1] /\ reading /\ port_ok
  /\ line' = l
  /\ last_response' = l
  /\ LET st == ParseResponse(l, AxisState)
     IN /\ joints' = st.joints
        /\ cartesian' = st.cartesian
        /\ j7_pos' = st.j7_pos
  /\ UNCHANGED <<connected, reading, result, deviceVars, deviceFrame>>

\* After construction of the controller: not connected.
DeviceInitial ==
  /\ ToolboxInit
  /\ HistoryInit
  /\ pathway = <<>>
  /\ connected = [r \in Robots |-> FALSE]
  /\ feeder_connected = FALSE
  /\ SessionIdle
  /\ start_rejected = FALSE
  /\ platform = "linux"
  /\ PadInit
  /\ JogInit
  /\ ControllerInit

DeviceNext ==
  \/ DeviceCommand
  \/ MoveAndWaitCall
  \/ DeviceConnect
  \/ DeviceDisconnect
  \/ PortFails
  \/ \E l \in Telemetry : Feedback(l)

SpecDevice == DeviceInitial /\ [][DeviceNext]_vars

\* ------------------------------------------- RobotController: SpecCode
\* The jog methods of a connected RobotController called with every joint
\* 1..6, every cartesian axis (and a name that is none) and both directions.
JogDirections == {-1, 1}

JogCall ==
  \/ \E j \in 1..6, d \in JogDirections : JogJoint(j, d)
  \/ \E axis \in DOMAIN axis_map \cup {"W"}, d \in JogDirections :
       JogCartesian(axis, d)
  \/ \E d \in JogDirections : JogJ7(d)

\* connect() has succeeded.
CodeInitial ==
  /\ ToolboxInit
  /\ HistoryInit
  /\ pathway = <<>>
  /\ connected = [r \in Robots |-> r = 1]
  /\ feeder_connected = FALSE
  /\ SessionIdle
  /\ start_rejected = FALSE
  /\ platform = "linux"
  /\ PadInit
  /\ JogInit
  /\ ControllerInit

SpecCode == CodeInitial /\ [][JogCall]_vars

\* ------------------------------------------------- training: SpecTrain
\* The digits of a natural number.
RECURSIVE DigitsOf(_)
DigitsOf(n) ==
  IF n < 10 THEN <<Digits[n + 1]>>
  ELSE Append(DigitsOf(n \div 10), Digits[(n % 10) + 1])

\* (variant: the sign is not written)
ReprUnsigned(v) ==
  LET m == IF v < 0 THEN -v ELSE v
      f == m % 1000
      three == <<Digits[(f \div 100) + 1], Digits[((f \div 10) % 10) + 1],
                 Digits[(f % 10) + 1]>>
      frac == IF f % 10 # 0 THEN three
              ELSE IF f % 100 # 0 THEN SubSeq(three, 1, 2)
              ELSE SubSeq(three, 1, 1)
  IN DigitsOf(m \div 1000) \o <<".">> \o frac

\* json.dump of a float (float.__repr__) of at most three decimals, given in
\* thousandths: a sign, the whole part, a point and the decimals without
\* trailing zeros, at least one ("100.0", "-7.25", "0.001").
Repr(v) ==
  LET m == IF v < 0 THEN -v ELSE v
      f == m % 1000
      three == <<Digits[(f \div 100) + 1], Digits[((f \div 10) % 10) + 1],
                 Digits[(f % 10) + 1]>>
      frac == IF f % 10 # 0 THEN three
              ELSE IF f % 100 # 0 THEN SubSeq(three, 1, 2)
              ELSE SubSeq(three, 1, 1)
  IN (IF v < 0 THEN <<"-">> ELSE <<>>) \o DigitsOf(m \div 1000) \o <<".">> \o frac

\* JSON null, what json.dump writes for None
JsonNull == [null |-> TRUE]

\* json.dump of waypoint['r1'] or waypoint['r2']
DumpSnapshot(snap) ==
  IF snap = NoSnapshot THEN JsonNull
  ELSE [joints |-> [i \in 1..Len(snap.joints) |-> Repr(snap.joints[i])],
        cartesian |-> [i \in 1..Len(snap.cartesian) |-> Repr(snap.cartesian[i])],
        j7 |-> Repr(snap.j7)]

\* json.load of the same
LoadSnapshot(text) ==
  IF text = JsonNull THEN NoSnapshot
  ELSE [joints |-> [i \in 1..Len(text.joints) |-> Float(text.joints[i])],
        cartesian |-> [i \in 1..Len(text.cartesian) |-> Float(text.cartesian[i])],
        j7 |-> Float(text.j7)]

\* json.dump(self.pathway, f, indent=2), the "waypoints" array
Dump(waypoints) ==
  [i \in 1..Len(waypoints) |->
     [r1 |-> DumpSnapshot(waypoints[i].r1),
      r2 |-> DumpSnapshot(waypoints[i].r2),
      feeder |-> Repr(waypoints[i].feeder)]]

\* json.load(f), the "waypoints" array
Load(text) ==
  [i \in 1..Len(text) |->
     [r1 |-> LoadSnapshot(text[i].r1),
      r2 |-> LoadSnapshot(text[i].r2),
      feeder |-> Float(text[i].feeder)]]

\* self.robot2.joints, .cartesian and .j7_pos, in thousandths (those of robot
\* 1 are the variables joints, cartesian and j7_pos)
Robot2Axes ==
  [joints |-> <<-90000, 45500, 0, 179999, -1, 30250>>,
   cartesian |-> <<-250125, 0, 300000, -180000, 90000, 7>>,
   j7 |-> -120500]

\* self.feeder.position once the feeder has moved, in thousandths
FeederMoved == 12500

\* What no handler of Train mode touches.
trainFrame == <<playback_loop, widx, wsuccess, after, feeder_connected,
                connected, sessionVars, lastRobot, padVars, speed,
                speed_changes, sinceSend, sinceCool, jog_out, smoothness,
                snapshot, cmd_out, feedbackVars, jogging, port_ok, tx>>
playFrame == <<playback_active, spawned, wpc, stopAt, start_rejected>>

\* _toggle_operation_mode: a running playback is stopped, the mode flips
ToggleOperationMode ==
  /\ IF playback_active
     THEN /\ playback_active' = FALSE
          /\ wire' = StopAllJog
          /\ stopAt' = [w \in Workers |->
                          IF Alive(w) /\ stopAt[w] = "none" THEN wpc[w]
                          ELSE stopAt[w]]
          /\ current_jog' = NoJog
          /\ sinceStop' = {}
     ELSE UNCHANGED <<playback_active, wire, stopAt, current_jog, sinceStop>>
  /\ operation_mode' = (IF operation_mode = OP_MOVE THEN OP_TRAIN ELSE OP_MOVE)
  /\ UNCHANGED <<spawned, wpc, start_rejected, pathway, saved, ret,
                 device_mode, move_mode, trainFrame>>

\* _capture_waypoint: positions are requested from the devices of the device
\* mode, a snapshot is taken of each connected robot of the mode, and the
\* waypoint is appended.
CaptureWaypoint ==
  LET r1 == IF device_mode \in {MODE_ROBOT1, MODE_BOTH} /\ connected[1]
            THEN [joints |-> joints, cartesian |-> cartesian, j7 |-> j7_pos]
            ELSE NoSnapshot
      r2 == IF device_mode \in {MODE_ROBOT2, MODE_BOTH} /\ connected[2]
            THEN Robot2Axes
            ELSE NoSnapshot
      f == IF feeder_connected THEN FeederMoved ELSE 0
  IN /\ Len(pathway) < MaxWaypoints
     /\ wire' = Written(Targets(device_mode), "GP", "position")
     /\ pathway' = Append(pathway, Waypoint(r1, r2, f))
     /\ UNCHANGED <<playFrame, current_jog, sinceStop, operation_mode, saved,
                    ret, device_mode, move_mode, trainFrame>>

\* _delete_last_waypoint
DeleteLastWaypoint ==
  /\ pathway' = (IF pathway # <<>> THEN SubSeq(pathway, 1, Len(pathway) - 1)
                  ELSE pathway)
  /\ UNCHANGED <<playFrame, wire, current_jog, sinceStop, operation_mode,
                 saved, ret, device_mode, move_mode, trainFrame>>

\* _clear_pathway, the Clear button
ClearPathway ==
  /\ pathway' = <<>>
  /\ UNCHANGED <<playFrame, wire, current_jog, sinceStop, operation_mode,
                 saved, ret, device_mode, move_mode, trainFrame>>

\* Names typed into the pathway name field, stripped.
PathwayNames == {"", "p"}

\* _save_pathway, the Save button: refused without a name or without
\* waypoints; open() may raise and leave the file as it was, json.dump may
\* raise and leave a file that is not whole. `of` is history: the waypoints
\* in memory when the file was written.
SavePathway(name) ==
  /\ IF name = ""
     THEN /\ saved' = saved
          /\ ret' = "Error: Pathway name required"
     ELSE IF pathway = <<>>
     THEN /\ saved' = saved
          /\ ret' = "Error: No waypoints to save"
     ELSE \/ /\ saved' = [exists |-> TRUE, whole |-> TRUE,
                          waypoints |-> Dump(pathway), of |-> pathway]
             /\ ret' = "Pathway saved"
          \/ /\ saved' \in {saved, [exists |-> TRUE, whole |-> FALSE,
                                    waypoints |-> <<>>, of |-> <<>>]}
             /\ ret' = "Save failed"
  /\ UNCHANGED <<playFrame, wire, current_jog, sinceStop, operation_mode,
                 pathway, device_mode, move_mode, trainFrame>>

\* _show_load_dialog and _load_pathway, the Load button: nothing without a
\* file; json.load of a file that is not whole raises and the pathway stays.
LoadPathway ==
  /\ IF ~saved.exists
     THEN /\ pathway' = pathway
          /\ ret' = "No saved pathways found"
     ELSE IF ~saved.whole
     THEN /\ pathway' = pathway
          /\ ret' = "Load failed"
     ELSE /\ pathway' = Load(saved.waypoints)
          /\ ret' = "Loaded pathway"
  /\ UNCHANGED <<playFrame, wire, current_jog, sinceStop, operation_mode,
                 saved, device_mode, move_mode, trainFrame>>

\* _cycle_device_mode
CycleDeviceMode ==
  /\ device_mode' = (device_mode + 1) % 3
  /\ wire' = StopAllJog
  /\ current_jog' = NoJog
  /\ sinceStop' = {}
  /\ UNCHANGED <<playFrame, pathway, operation_mode, saved, ret, move_mode,
                 trainFrame>>

\* _set_move_mode(mode)
SetMoveMode(mode) ==
  /\ move_mode' = mode
  /\ UNCHANGED <<playFrame, wire, current_jog, sinceStop, pathway,
                 operation_mode, saved, ret, device_mode, trainFrame>>

\* _on_button_press(BTN_START)
StartPress ==
  IF operation_mode = OP_TRAIN THEN TogglePlayback ELSE EmergencyStopAll

\* _on_button_press(button) for Back, A and B in either operation mode
ModeButtons == {"BACK", "A", "B"}
OnModeButtonPress(b) ==
  CASE b = "BACK" -> CycleDeviceMode
    [] b = "A" -> IF operation_mode = OP_TRAIN THEN CaptureWaypoint
                  ELSE SetMoveMode(MOVE_JOINT)
    [] b = "B" -> IF operation_mode = OP_TRAIN THEN DeleteLastWaypoint
                  ELSE SetMoveMode(MOVE_CARTESIAN)

\* The window is up in Move mode with an empty pathway and no file; every
\* device is connected, or robot 1 alone, or none, and robot 1 has reported a
\* position. ret is the last message logged by Save or Load.
TrainInitial ==
  /\ ToolboxInit
  /\ HistoryInit
  /\ pathway = <<>>
  /\ connected \in { [r \in Robots |-> TRUE], [r \in Robots |-> r = 1],
                     [r \in Robots |-> FALSE] }
  /\ feeder_connected = connected[2]
  /\ SessionIdle
  /\ start_rejected = FALSE
  /\ platform = "linux"
  /\ PadInit
  /\ JogInit
  /\ smoothness = 50
  /\ snapshot = [r \in Robots |-> NoSnapshot]
  /\ cmd_out = [r \in Robots |-> NoCommand]
  /\ operation_mode = OP_MOVE
  /\ saved = NoFile
  /\ line = <<>>
  /\ joints = <<90000, -45500, 1, 0, -7250, 179999>>
  /\ cartesian = <<250125, -1000, 300000, 180000, -90000, 10>>
  /\ j7_pos = 120500
  /\ jogging = FALSE
  /\ port_ok = TRUE
  /\ tx = <<>>
  /\ ret = "none"

TrainNext ==
  \/ ToggleOperationMode
  \/ \E b \in ModeButtons : OnModeButtonPress(b)
  \/ ClearPathway
  \/ \E name \in PathwayNames : SavePathway(name)
  \/ LoadPathway

SpecTrain == TrainInitial /\ [][TrainNext]_vars

\* ---------------------------------------------- Start button: SpecStart
\* The window is up in Move mode, a pathway has been captured or loaded and
\* some of the devices are connected; nothing is playing.
StartInitial == Init

\* The Train/Move button and the controller's Start button; no playback
\* thread has been scheduled yet.
StartNext ==
  \/ ToggleOperationMode
  \/ StartPress

SpecStart == StartInitial /\ [][StartNext]_vars

\* -------------------------------------- RobotController: SpecReply
\* The device's reply to GP: the position line.
PositionReply == LineOf(BaseTexts, {}, 1)

\* What neither a write nor the device touches besides the session.
replyFrame == <<toolboxVars, historyVars, start_rejected, padVars, jogVars,
                commandVars, feedbackVars, jogging, port_ok, ret>>

\* get_position() of robot 1 from another thread (_capture_waypoint on the Tk
\* thread): send("GP"); the line waits for the device
QueryPosition ==
  /\ connected[1]
  /\ Len(tx) < MaxTx - 1
  /\ tx' = Append(tx, [cmd |-> "GP"])
  /\ wire' = Written({1}, "GP", "")
  /\ UNCHANGED <<connected, sessionVars, replyFrame>>

\* move_and_wait: `self.serial.write(cmd.encode()); self.serial.flush()`, or
\* it raises; the line waits for the device
MoveWriteQueued ==
  /\ mpc = "write"
  /\ \/ /\ Len(tx) < MaxTx
        /\ wire' = Written({1}, "MJ", "")
        /\ tx' = Append(tx, [cmd |-> "MJ"])
        /\ mpc' = "set_timeout"
     \/ /\ UNCHANGED <<wire, tx>>
        /\ mpc' = "except"
  /\ UNCHANGED <<connected, reading, read_thread, rpc, rx, ser_timeout,
                 last_response, response, original_timeout, result, replyFrame>>

\* The device takes the oldest line written to it and answers it: GP with
\* the position line, a move with a completion or error line.
DeviceAnswers ==
  /\ tx # <<>>
  /\ Len(rx) < MaxRx
  /\ tx' = Tail(tx)
  /\ IF Head(tx).cmd = "GP"
     THEN rx' = Append(rx, PositionReply)
     ELSE \E l \in DeviceLines : rx' = Append(rx, l)
  /\ UNCHANGED <<robotVars, reading, read_thread, rpc, ser_timeout,
                 last_response, mpc, response, original_timeout, result,
                 replyFrame>>

\* The reader thread is not scheduled: what arrives stays in the input
\* buffer until move_and_wait clears or reads it.
ReplyNext ==
  \/ Connect
  \/ QueryPosition
  \/ DeviceAnswers
  \/ MoveCall
  \/ MoveStopReading
  \/ MoveReset
  \/ MoveWriteQueued
  \/ MoveSetTimeout
  \/ MoveReadline
  \/ MoveRestore
  \/ MoveResume
  \/ MoveRestart
  \/ MoveClassify
  \/ MoveExcept

SpecReply == SessionInit /\ [][ReplyNext]_vars

\* ------------------------------------------------------ playback: claims
\* The step makes worker w call move_and_wait on robot r (the move line is
\* written).
BeginsMove(w, r) == ~Outstanding(w, r) /\ Outstanding(w, r)'

\* Worker w holds a failed move: `success` is False inside _move_to_waypoint.
HoldsFailure(w) == Alive(w) /\ ~wsuccess[w]

\* The callbacks worker w queued have run and the worker has returned.
Handled(w) ==
  /\ wpc[w] = "done"
  /\ \A i \in 1..Len(after) : after[i][2] # w

\* C1: once a move of a playback run has failed the worker issues no move for
\* any later waypoint (it stays on the failed waypoint until it returns), on
\* returning it queues the "Move failed" log and _stop_playback, and these
\* run: the failure is reported and playback is Idle again.
C1_FailFast ==
  /\ [][\A w \in Workers :
          HoldsFailure(w) =>
            /\ wpc'[w] \in {wpc[w], "chk2", "r2", "r2_wait", "done"}
            /\ Alive(w)' => (widx'[w] = widx[w] /\ ~wsuccess'[w])
            /\ ~Alive(w)' => after' = after \o MoveFailedCallbacks(w)]_vars
  /\ \A w \in Workers : HoldsFailure(w) ~> (Handled(w) /\ ~playback_active)

\* A worker of a run that was never stopped has returned after a failed move
\* on a two-waypoint pathway; its two callbacks are queued.
C1_Witness ==
  \E w \in Workers :
    /\ wpc[w] = "done"
    /\ spawned = 1
    /\ playback_active
    /\ Len(pathway) = 2
    /\ after = MoveFailedCallbacks(w)

\* C2: at most one move_and_wait is outstanding per robot, because at most
\* one playback worker issues moves at any time.
C2_SingleWorker ==
  \A r \in Robots : Cardinality({ w \in Workers : Outstanding(w, r) }) <= 1

\* C6 as claimed: after a stop request (and no new start) the worker begins
\* no blocking move.
C6_NoMoveAfterStop ==
  [][\A w \in Workers, r \in Robots : BeginsMove(w, r) => stopAt[w] = "none"]_vars

\* C6 amended: after a stop request (and no new start) the only blocking move
\* a worker still begins is the one it stood before when the stop arrived,
\* having passed its check of playback_active; when the stop arrived during
\* robot 1's move robot 2 is skipped, and no later waypoint is attempted.
C6_StopAtNextCheck ==
  [][\A w \in Workers :
       /\ \A r \in Robots :
            (BeginsMove(w, r) /\ stopAt[w] # "none") =>
              /\ stopAt[w] = wpc[w]
              /\ wpc[w] = (IF r = 1 THEN "r1" ELSE "r2")
       /\ (stopAt[w] # "none" /\ Alive(w)') => widx'[w] = widx[w]]_vars

\* The stop arrived during robot 1's move; the move has returned and the
\* worker stands at the check that skips robot 2.
C6_Witness ==
  \E w \in Workers :
    /\ stopAt[w] = "r1_wait"
    /\ wpc[w] = "chk2"
    /\ ~playback_active
    /\ MovesRobot(w, 2)

\* C7: emergency stop can be issued in every state, and the step writes ES to
\* every connected robot and stop to a connected feeder at once: no worker
\* moves, an outstanding move_and_wait stays outstanding.
C7_EmergencyStop ==
  /\ [](ENABLED EmergencyStopAll)
  /\ [][EmergencyStopAll =>
          /\ \A r \in Robots : connected[r] => (r \in wire'.robots /\ wire'.cmd = "ES")
          /\ \A r \in Robots : ~connected[r] => r \notin wire'.robots
          /\ feeder_connected => wire'.feeder = "stop"
          /\ wpc' = wpc
          /\ playback_active' = playback_active]_vars

\* ES was written to robot 1 while a move_and_wait was outstanding on it.
C7_Witness ==
  /\ wire.cmd = "ES"
  /\ 1 \in wire.robots
  /\ \E w \in Workers : Outstanding(w, 1)

\* C8: with loop enabled, the worker that completed the last waypoint goes
\* back to the head of the while loop and starts again at the first waypoint;
\* these steps neither change the playback state nor queue a stop.
C8_LoopRestart ==
  [][\A w \in Workers :
       /\ (wpc[w] = "loopchk" /\ wpc'[w] # "loopchk" /\ playback_loop) =>
            /\ wpc'[w] = "while"
            /\ playback_active' = playback_active
            /\ after' = after
       /\ (wpc[w] = "while" /\ wpc'[w] # "while" /\ playback_active) =>
            /\ wpc'[w] = "r1"
            /\ widx'[w] = 1
            /\ playback_active'
            /\ after' = after]_vars

\* A pass over the whole pathway is complete, loop is on and playback is
\* still Playing: the worker is back at the head of the while loop.
C8_Witness ==
  \E w \in Workers :
    /\ wpc[w] = "while"
    /\ widx[w] = Len(pathway) + 1
    /\ playback_loop
    /\ playback_active

\* C9: within a pass the waypoints are taken in insertion order (the index
\* starts at the first waypoint and advances by one after a completed
\* waypoint), robot 1's move is the first of its waypoint, and robot 2's move
\* is written only after robot 1's move_and_wait (if any) has returned.
C9_Order ==
  [][\A w \in Workers :
       /\ BeginsMove(w, 1) => lastRobot[w] = 0
       /\ BeginsMove(w, 2) =>
            /\ lastRobot[w] = (IF MovesRobot(w, 1) THEN 1 ELSE 0)
            /\ ~Outstanding(w, 1)
       /\ (Alive(w) /\ Alive(w)' /\ widx'[w] # widx[w]) =>
            \/ wpc[w] = "chk3" /\ widx'[w] = widx[w] + 1
            \/ wpc[w] = "while" /\ widx'[w] = 1
       /\ (wpc[w] # "r1" /\ wpc'[w] = "r1") =>
            widx'[w] \in 1..Len(pathway)]_vars

\* Robot 2's move of the second waypoint is outstanding after robot 1's.
C9_Witness ==
  \E w \in Workers :
    /\ Outstanding(w, 2)
    /\ widx[w] = 2
    /\ lastRobot[w] = 2
    /\ MovesRobot(w, 1)

\* C10: when robot 1's move of a waypoint has failed, no move is sent to
\* robot 2 for that waypoint.
C10_NoRobot2AfterFailure ==
  [][\A w \in Workers :
       (lastRobot[w] = 1 /\ ~wsuccess[w]) => ~BeginsMove(w, 2)]_vars

\* C11: starting playback on a pathway without waypoints is rejected: with
\* an empty pathway playback is never Playing, no worker exists, no move or
\* playback stop is written to a device, and the rejected start changes
\* nothing but the log.
C11_EmptyRejected ==
  /\ [](pathway = <<>> =>
          /\ ~playback_active
          /\ spawned = 0
          /\ \A w \in Workers : ~Alive(w)
          /\ after = <<>>
          /\ wire.cmd \notin {"MJ", "S"})
  /\ [][(pathway = <<>> /\ ~start_rejected /\ start_rejected') =>
          UNCHANGED <<toolboxVars, robotVars, sessionVars, inputVars>>]_vars

\* Play was pressed on an empty pathway with both robots and the feeder
\* connected; the start was rejected.
C11_Witness ==
  /\ start_rejected
  /\ pathway = <<>>
  /\ \A r \in Robots : connected[r]
  /\ feeder_connected
  /\ ~playback_active

\* The step ends worker w's waypoint (the feeder step and `return success`).
FinishesWaypoint(w) == wpc[w] \in {"r2", "r2_wait"} /\ wpc'[w] \in {"chk3", "done"}

\* C12: the feeder step is written in the step that ends the waypoint, with
\* nothing awaited (the worker goes straight on), and it never fails the
\* waypoint: a waypoint ended with `success` still True is not counted as
\* failed whatever the feeder's connection and target, and while the last
\* robot move is outstanding with `success` True the successful end is
\* possible.
C12_FeederNeverAborts ==
  /\ [][\A w \in Workers :
          FinishesWaypoint(w) =>
            /\ wire' = FeederMove(w)
            /\ (wpc[w] = "r2" /\ wsuccess[w]) => (wpc'[w] = "chk3" /\ after' = after)
            /\ wpc'[w] = "done" => after' = after \o MoveFailedCallbacks(w)]_vars
  /\ [](\A w \in Workers :
          (wpc[w] = "r2_wait" /\ wsuccess[w]) =>
            ENABLED (R2Return(w) /\ wpc'[w] = "chk3" /\ after' = after))

\* A waypoint whose feeder target differs from the feeder's position was
\* completed with the feeder disconnected: nothing was sent to the feeder and
\* the worker goes on.
C12_Witness ==
  \E w \in Workers :
    /\ wpc[w] = "chk3"
    /\ pathway[widx[w]].feeder # FeederPosition
    /\ ~feeder_connected
    /\ wire.cmd = "MJ"

\* ------------------------------------------------------- session: claims
\* A move_and_wait is outstanding: the move line is written and its reply
\* line is not yet consumed.
MoveOutstanding == mpc \in {"set_timeout", "readline"}

\* The step is a reader thread taking a line off the transport.
ReaderConsumes(t) == rpc[t] = "readline" /\ rpc'[t] = "loop" /\ rx # <<>>

\* C3: while a move_and_wait is outstanding the background reader reads
\* nothing from the transport.
C3_ReaderPaused ==
  [][\A t \in Readers : ReaderConsumes(t) => ~MoveOutstanding]_vars

\* s without its leading and trailing blanks, by positions
Unblanked(s) ==
  LET solid == { i \in 1..Len(s) : s[i] # " " }
  IN IF solid = {} THEN <<>>
     ELSE SubSeq(s, CHOOSE i \in solid : \A j \in solid : i <= j,
                    CHOOSE i \in solid : \A j \in solid : j <= i)

C5_ReaderResumed ==
  [][(mpc \in {"classify", "except"} /\ mpc' = "idle") =>
       (reading' /\ \E t \in Readers : IsAlive(t)')]_vars

\* ------------------------------------------------------- jogging: claims
\* _on_button_press: the jog a jog button starts in the current move mode
ButtonJog(b) ==
  CASE b = "X" -> JointJog(7, -1)
    [] b = "Y" -> JointJog(7, 1)
    [] b = "LB" -> JointJog(9, -1)
    [] b = "RB" -> JointJog(9, 1)
    [] b \in DpadButtons -> DpadJog(b)

\* The step is one call of _on_stick_move.
StickStep == ppc = "stick" /\ ppc' = "trigger"

\* The step is one call of _on_trigger.
TriggerStep == ppc = "trigger" /\ ppc' = "idle"

\* C13: a jog started by a button press stays active until the button is
\* released, whatever the sticks do: a stick evaluation with the sticks at
\* rest, while the button is held and its jog is the recorded one, sends no
\* Stop and leaves the jog recorded.
C13_ButtonJogHeld ==
  [][(/\ StickStep
      /\ AtRest(sticks)
      /\ \E b \in buttons \cap JogButtons : current_jog = ButtonJog(b))
       => (current_jog' = current_jog /\ ~jog_out'.stop)]_vars

\* The polling thread handles b going up: on Linux the event that takes b out
\* of self.buttons, on Windows the turn of b in the loop over `released`.
ReleaseHandled(b) ==
  \/ platform = "linux" /\ ppc = "idle" /\ b \in buttons /\ b \notin buttons'
  \/ platform = "win32" /\ ppc = "release" /\ b \in released /\ b \notin released'

\* C14: the release of a jog button is a stop-all-jog on both polling
\* back-ends: the step that handles it sends Stop and leaves no jog recorded.
C14_ReleaseStops ==
  [][\A b \in JogButtons :
       ReleaseHandled(b) =>
         (jog_out'.stop /\ ~Wrote(jog_out'.jog) /\ current_jog' = NoJog)]_vars

\* C15: between two Stops the devices are given jog commands of at most one
\* axis and direction.
C15_OneIntent == Cardinality(sinceStop) <= 1

\* The first of lx, ly, rx, ry whose magnitude is the greatest one.
Strongest(s) ==
  LET m == Max2(Max2(Abs(s[1]), Abs(s[2])), Max2(Abs(s[3]), Abs(s[4])))
  IN CHOOSE i \in 1..4 : Abs(s[i]) = m /\ \A j \in 1..(i - 1) : Abs(s[j]) # m

\* The jog of stick axis i pushed to value v: Joint lx J1, ly J2, rx J3,
\* ry J4; Cartesian lx Y, ly X, rx Rz, ry Z; the direction is v's sign.
AxisJog(i, v, mode) ==
  LET d == IF v > 0 THEN 1 ELSE -1
  IN IF mode = MOVE_JOINT THEN JointJog(i, d)
     ELSE CartJog(<<"Y", "X", "Rz", "Z">>[i], d)

\* C16: a stick evaluation with an axis at or above the deadzone records the
\* jog of the axis of greatest magnitude (ties: lx, ly, rx, ry in this
\* order), with the sign of its value, by the mapping of the move mode.
C16_StrongestAxisWins ==
  [][(StickStep /\ \E i \in 1..4 : Abs(sticks[i]) >= dz)
       => current_jog' = AxisJog(Strongest(sticks), sticks[Strongest(sticks)],
                                 move_mode)]_vars

\* Both right-stick axes at the same magnitude, the left stick inside the
\* deadzone: rx has won, in Cartesian mode.
C16_Witness ==
  /\ ppc = "trigger"
  /\ sticks = <<10, 0, -60, 60>>
  /\ move_mode = MOVE_CARTESIAN
  /\ current_jog = CartJog("Rz", -1)

\* C17 as stated: a stick evaluation writes a jog only for an intent that
\* differs from the recorded one, or for the same one when at least 0.5 s
\* have passed since the last emission; and the same intent, at least 0.5 s
\* after the last emission, is written again.
C17_ResendAtHalfSecond ==
  [][StickStep =>
       LET new_jog == NewJog(sticks, move_mode)
       IN /\ Wrote(jog_out'.jog) =>
               (new_jog # current_jog \/ sinceSend >= ResendAfter)
          /\ (~AtRest(sticks) /\ new_jog = current_jog /\ sinceSend >= ResendAfter)
               => jog_out'.jog = RobotJog(new_jog, speed)]_vars

\* C17: a stick evaluation writes a jog only for an intent that differs from
\* the recorded one, or for the same one when more than 0.5 s have passed
\* since the last emission; a different intent is written at once, the same
\* intent is written again once more than 0.5 s have passed, and the time of
\* the last emission is then the present.
C17_ResendThrottled ==
  [][StickStep =>
       LET new_jog == NewJog(sticks, move_mode)
       IN /\ Wrote(jog_out'.jog) =>
               (~AtRest(sticks) /\ (new_jog # current_jog \/ sinceSend > ResendAfter))
          /\ (~AtRest(sticks) /\ (new_jog # current_jog \/ sinceSend > ResendAfter))
               => (jog_out'.jog = RobotJog(new_jog, speed) /\ sinceSend' = 0)
          /\ (~AtRest(sticks) /\ new_jog = current_jog /\ sinceSend <= ResendAfter)
               => (jog_out' = NoOut /\ sinceSend' = sinceSend)]_vars

\* A stick evaluation has written the recorded jog once more.
C17_Witness ==
  /\ ppc = "trigger"
  /\ jog_out.again
  /\ sinceSend = 0
  /\ current_jog = NewJog(sticks, move_mode)

\* C18 as stated: every stick evaluation with the four axes below the
\* deadzone sends Stop to the devices.
C18_RestAlwaysStops ==
  [][(StickStep /\ AtRest(sticks)) => (jog_out'.stop /\ current_jog' = NoJog)]_vars

\* C18: a stick evaluation with the four axes below the deadzone leaves no
\* jog recorded and writes no jog; if a jog was recorded, Stop goes to every
\* connected robot and the feeder in that same evaluation, however short the
\* time since the last emission; if none was recorded nothing is written.
C18_RestStopsRecordedJog ==
  [][(StickStep /\ AtRest(sticks)) =>
       /\ current_jog' = NoJog
       /\ ~Wrote(jog_out'.jog)
       /\ jog_out'.stop <=> current_jog # NoJog
       /\ jog_out'.stop => wire' = Written(Robots, "S", "stop")
       /\ ~jog_out'.stop => wire' = wire
       /\ sinceSend' = sinceSend]_vars

\* The sticks are back inside the deadzone right after a jog was emitted:
\* Stop is out although no time has passed since that emission.
C18_Witness ==
  /\ ppc = "trigger"
  /\ AtRest(sticks)
  /\ sticks # StickRest
  /\ jog_out.stop
  /\ sinceSend = 0
  /\ wire.cmd = "S"
  /\ current_jog = NoJog

\* C19: a jog command for the robots is written to the connected robots of
\* the device mode's target set (robot 1, robot 2 or both), to all of them
\* and to no other robot.
C19_JogToConnectedTargets ==
  LET selected == { r \in Robots : \/ device_mode = MODE_BOTH
                                   \/ device_mode = MODE_ROBOT1 /\ r = 1
                                   \/ device_mode = MODE_ROBOT2 /\ r = 2 }
      w == jog_out.jog
  IN (w.intent # NoJog /\ w.fcmd = "") =>
       /\ w.to = { r \in selected : connected[r] }
       /\ w.to # {} => (wire.robots = w.to /\ wire.cmd = w.line.cmd)

\* Both robots are selected and robot 2 is not connected: the jog line went
\* to robot 1 alone.
C19_Witness ==
  /\ device_mode = MODE_BOTH
  /\ ~connected[2]
  /\ jog_out.jog.to = {1}
  /\ wire.robots = {1}
  /\ wire.cmd \in {"LJ", "LC"}

\* C20: every LJ line written to a robot carries an axis in 1..7, a code in
\* {10, 11, 20, 21, ..., 70, 71}; the trigger handler, which writes the
\* recorded jog again as a joint or Cartesian jog of the robots, never finds
\* a track or feeder jog recorded.
C20_JointCodes ==
  /\ jog_out.jog.line.cmd = "LJ" =>
       jog_out.jog.line.code \in { a * 10 + k : a \in 1..7, k \in {0, 1} }
  /\ ppc = "trigger" =>
       current_jog \notin { JointJog(a, d) : a \in {7, 9}, d \in {-1, 1} }

\* The speed was changed with the feeder button held and a stick pushed: the
\* stick's joint jog was written again at the new speed.
C20_Witness ==
  /\ ppc = "idle"
  /\ "LB" \in buttons
  /\ speed # DEFAULT_SPEED
  /\ sinceCool = 0
  /\ jog_out.again
  /\ jog_out.jog.line.cmd = "LJ"
  /\ jog_out.jog.line.speed = RobotSpeed(speed)

\* ------------------------------------------------------ speed: claims
\* C21: the speed stays within 1..100; a call of the trigger handler changes
\* it by at most 5, up (to at most 100) only with the right trigger above
\* 0.2, down (to at least 1) only with the left trigger above 0.2; and it
\* changes only when the previous change is at least 150 ms old.
C21_TriggerSpeed ==
  [][ /\ speed' \in 1..100
      /\ speed' # speed =>
           /\ sinceCool >= 15
           /\ Abs(speed' - speed) <= 5
           /\ \/ /\ triggers[2] > 20
                 /\ speed' = (IF speed + 5 > 100 THEN 100 ELSE speed + 5)
              \/ /\ triggers[1] > 20
                 /\ speed' = (IF speed - 5 < 1 THEN 1 ELSE speed - 5) ]_vars

\* The speed has changed twice, the second time just now and clamped at 100.
C21_Witness ==
  /\ speed_changes >= 2
  /\ sinceCool = 0
  /\ speed = 100

\* The speed and the ramp values a built command carries.
DeviceSpeed(c) == IF c.cmd = "MJ" THEN c.speed[2] ELSE c.speed
Built == { r \in Robots : cmd_out[r] # NoCommand }
Moves == { r \in Robots : cmd_out[r].cmd = "MJ" }

\* C22 (as stated): the device speed of a command is max(1, round(speed *
\* 25 / 100)).
C22_DeviceSpeedRounded ==
  \A r \in Built :
    DeviceSpeed(cmd_out[r])
      = (IF PyRound4(speed) < 1 THEN 1 ELSE PyRound4(speed))

\* C22 (amended): for every speed 0..100 the device speed of a command is
\* max(1, speed * 25 / 100 truncated to an integer): the largest d with
\* 4 d <= speed, or 1 below speed 4; 100 gives 25, 1 and 0 give 1, and the
\* result always lies in 1..25.
C22_DeviceSpeedTruncated ==
  \A r \in Built :
    LET d == DeviceSpeed(cmd_out[r])
    IN /\ d \in 1..25
       /\ IF speed < 4 THEN d = 1 ELSE 4 * d <= speed /\ speed < 4 * d + 4
       /\ speed = 100 => d = 25
       /\ speed \in {0, 1} => d = 1

\* A move command was built at speed 6, where 1.5 truncates to 1.
C22_Witness ==
  /\ speed = 6
  /\ \E r \in Moves : DeviceSpeed(cmd_out[r]) = 1

\* C23 (as stated): accel = decel = max(1, round(26 - smoothness * 25 /
\* 100)), and smoothness 100 gives 1, 1 gives 25, 50 gives 13.
C23_RampRounded ==
  \A r \in Moves :
    /\ cmd_out[r].accel[2]
         = (IF PyRound4(104 - smoothness) < 1 THEN 1 ELSE PyRound4(104 - smoothness))
    /\ cmd_out[r].decel[2] = cmd_out[r].accel[2]
    /\ smoothness = 100 => cmd_out[r].accel[2] = 1
    /\ smoothness = 1 => cmd_out[r].accel[2] = 25
    /\ smoothness = 50 => cmd_out[r].accel[2] = 13

\* C23 (amended): for every smoothness 1..100, accel = decel = max(1, 26 -
\* smoothness * 25 / 100 truncated to an integer): the largest a with
\* 4 a <= 104 - smoothness; 100 gives 1, 1 gives 25, 50 gives 13, the result
\* lies in 1..25 and no smaller smoothness gives a smaller value.
C23_RampTruncated ==
  \A r \in Moves :
    LET a == cmd_out[r].accel[2]
    IN /\ cmd_out[r].decel[2] = a
       /\ a \in 1..25
       /\ 4 * a <= 104 - smoothness /\ 104 - smoothness < 4 * a + 4
       /\ smoothness = 100 => a = 1
       /\ smoothness = 1 => a = 25
       /\ smoothness = 50 => a = 13
       /\ \A s \in 1..smoothness : AccelDecel(s)[1] >= a

\* A move command was built at smoothness 50 with ramp values 13.
C23_Witness ==
  /\ smoothness = 50
  /\ \E r \in Moves : cmd_out[r].accel[2] = 13 /\ cmd_out[r].decel[2] = 13

\* C30: the move command of a connected robot with a snapshot carries, when
\* some cartesian component of the snapshot is non-zero, the fields X, Y, Z,
\* Rz, Ry, Rx in this order, each with the stored component of its name
\* (stored order X, Y, Z, Rx, Ry, Rz); when all six are zero, the six joints.
C30_CartesianFirst ==
  \A r \in Moves :
    LET c == cmd_out[r]
        snap == snapshot[r]
        stored == [X |-> 1, Y |-> 2, Z |-> 3, Rx |-> 4, Ry |-> 5, Rz |-> 6]
    IN /\ connected[r] /\ snap # NoSnapshot
       /\ IF \E i \in 1..6 : snap.cartesian[i] # 0
          THEN /\ c.labels = <<"X", "Y", "Z", "Rz", "Ry", "Rx">>
               /\ \A k \in 1..6 :
                    c.values[k] = Fmt3(snap.cartesian[stored[c.labels[k]]])
          ELSE /\ c.labels = <<"", "A", "B", "C", "D", "E">>
               /\ \A k \in 1..6 : c.values[k] = Fmt3(snap.joints[k])

\* Robot 1 got a cartesian command from a snapshot whose only non-zero
\* component is Rz, robot 2 a joint command from an all-zero one.
C30_Witness ==
  /\ Moves = Robots
  /\ snapshot[1].cartesian = <<0, 0, 0, 0, 0, 900000>>
  /\ cmd_out[1].labels[4] = "Rz" /\ cmd_out[1].values[4].whole = 90
  /\ snapshot[2].cartesian = <<0, 0, 0, 0, 0, 0>>
  /\ cmd_out[2].labels[2] = "A"

\* --------------------------------------------------- feedback: claims
\* The fields of a feedback line as the device sends them: the markers a
\* text stands between and the value it carries.
WireFields ==
  { [from |-> "A", to |-> "B", name |-> "J1"], [from |-> "B", to |-> "C", name |-> "J2"],
    [from |-> "C", to |-> "D", name |-> "J3"], [from |-> "D", to |-> "E", name |-> "J4"],
    [from |-> "E", to |-> "F", name |-> "J5"], [from |-> "F", to |-> "G", name |-> "J6"],
    [from |-> "G", to |-> "H", name |-> "X"], [from |-> "H", to |-> "I", name |-> "Y"],
    [from |-> "I", to |-> "J", name |-> "Z"], [from |-> "J", to |-> "K", name |-> "Rz"],
    [from |-> "K", to |-> "L", name |-> "Ry"], [from |-> "L", to |-> "M", name |-> "Rx"],
    [from |-> "P", to |-> "Q", name |-> "Track"] }

\* Where the controller keeps the value of a name: joints J1..J6, cartesian
\* in the order X, Y, Z, Rx, Ry, Rz, and the track position.
StoredIn(js, cs, j7, name) ==
  CASE name = "J1" -> js[1] [] name = "J2" -> js[2] [] name = "J3" -> js[3]
    [] name = "J4" -> js[4] [] name = "J5" -> js[5] [] name = "J6" -> js[6]
    [] name = "X" -> cs[1] [] name = "Y" -> cs[2] [] name = "Z" -> cs[3]
    [] name = "Rx" -> cs[4] [] name = "Ry" -> cs[5] [] name = "Rz" -> cs[6]
    [] name = "Track" -> j7

\* The text of field f in line l, and whether it is there and a number.
TextOf(l, f) == Slice(l, Find(l, f.from) + 1, Find(l, f.to))
WellFormed(l, f) ==
  /\ Find(l, f.from) >= 0
  /\ Find(l, f.to) > Find(l, f.from)
  /\ IsFloat(TextOf(l, f))

\* The markers A..L, M, P, Q all occur, in this order.
Canonical(l) ==
  \A k \in 1..14 :
    /\ Find(l, AllMarkers[k]) >= 0
    /\ Find(l, AllMarkers[k]) < Find(l, AllMarkers[k + 1])

\* The step is a call of _parse_response by the reader.
Decodes == ret = "none" /\ ret' # "none"

\* C24: decoding a line with the markers A..L, M, P, Q in canonical order
\* and a number after each of A..L and P sets the six joints, the six
\* cartesian values (sent as X, Y, Z, Rz, Ry, Rx, kept as X, Y, Z, Rx, Ry,
\* Rz) and the track position to the values of the texts.
C24_DecodesAll ==
  [][ Decodes /\ Canonical(line) /\ (\A f \in WireFields : WellFormed(line, f))
        => \A f \in WireFields :
             StoredIn(joints', cartesian', j7_pos', f.name) = Float(TextOf(line, f)) ]_vars

\* A line with a negative decimal for Rz was decoded: Rz is kept last, Rx
\* fourth.
C24_Witness ==
  /\ ret = "ok"
  /\ line = LineOf([BaseTexts EXCEPT ![10] = <<"-", "7", ".", "2", "5">>], {}, 1)
  /\ cartesian = <<7000, 8000, 9000, 12000, 11000, -7250>>
  /\ joints = <<1000, 2000, 3000, 4000, 5000, 6000>>
  /\ j7_pos = 13000

\* C25: decoding a line sets every field that is there and a number, and
\* leaves every other field as it was, whatever the other fields are.
C25_PerField ==
  [][ Decodes =>
        \A f \in WireFields :
          StoredIn(joints', cartesian', j7_pos', f.name)
            = (IF WellFormed(line, f) THEN Float(TextOf(line, f))
               ELSE StoredIn(joints, cartesian, j7_pos, f.name)) ]_vars

\* C26: decoding a line without the marker F leaves joints[5] as it was;
\* if the line is well-formed otherwise nothing is raised inside the call
\* either, and the fields that do not touch F are decoded.
C26_MissingF ==
  [][ Decodes /\ Find(line, "F") < 0
        => /\ joints'[6] = joints[6]
           /\ (\A f \in WireFields : f.from # "F" /\ f.to # "F" => WellFormed(line, f))
                => /\ ret' = "ok"
                   /\ \A f \in WireFields :
                        f.from # "F" /\ f.to # "F"
                          => StoredIn(joints', cartesian', j7_pos', f.name)
                               = Float(TextOf(line, f)) ]_vars

\* The line that lost F but kept the text after it was decoded: J6 (and J5)
\* are as before, the fields after G are set.
C26_Witness ==
  /\ ret = "ok"
  /\ line = LineOf(BaseTexts, {6}, 1)
  /\ joints = <<1000, 2000, 3000, 4000, -5000, -6000>>
  /\ cartesian[1] = 7000
  /\ j7_pos = 13000

\* ----------------------------------------------------- device: claims
\* C27: joints, cartesian pose and track position of a robot change only in
\* a step in which its reader, running on a connected robot, decodes a line;
\* such a step issues no command (nothing is written, nothing returned, the
\* jogging flag stays), and no command method changes them.
C27_OnlyDecodeWrites ==
  [][ /\ <<joints, cartesian, j7_pos>>' # <<joints, cartesian, j7_pos>>
        => /\ connected[1] /\ reading
           /\ LET st == ParseResponse(line', AxisState)
              IN <<joints, cartesian, j7_pos>>' = <<st.joints, st.cartesian, st.j7_pos>>
           /\ last_response' = line'
           /\ UNCHANGED <<tx, ret, result, jogging>>
      /\ DeviceCommand \/ MoveAndWaitCall
           => UNCHANGED <<joints, cartesian, j7_pos>> ]_vars

\* The reader has decoded a feedback line and commands were written since.
C27_Witness ==
  /\ joints = <<1000, 2000, 3000, 4000, 5000, 6000>>
  /\ j7_pos = 13000
  /\ Len(tx) = 2
  /\ jogging

\* C28: a command method or move_and_wait called on a robot that is not
\* connected returns failure, writes nothing and changes neither the jogging
\* flag, the reading flag, the last response nor the axis state.
C28_DisconnectedNoEffect ==
  [][ ~connected[1] =>
        /\ DeviceCommand => ret' = "False"
        /\ MoveAndWaitCall => result'[1] = FALSE
        /\ DeviceCommand \/ MoveAndWaitCall
             => UNCHANGED <<tx, jogging, reading, last_response, joints,
                            cartesian, j7_pos>> ]_vars

\* C29: a send or move_and_wait on a connected robot whose port raises
\* returns failure and leaves the robot marked disconnected.
C29_FailureDisconnects ==
  [][ (DeviceCommand \/ MoveAndWaitCall) /\ connected[1] /\ ~port_ok'
        => /\ ~connected'[1]
           /\ DeviceCommand => ret' = "False"
           /\ MoveAndWaitCall => result'[1] = FALSE ]_vars

\* ------------------------------------------------------- code: claims
\* The line a step appended to tx.
Sent == tx'[Len(tx')]
Sends == Len(tx') = Len(tx) + 1

\* C31: jog_joint (and jog_j7, joint 7) sends LJ with the code axis * 10 + 1
\* for a positive direction and axis * 10 otherwise, jog_cartesian sends LC
\* with the same code of the axis ids X 1, Y 2, Z 3, Rx 4, Ry 5, Rz 6; no
\* other joint and direction, and no other axis and direction, has the code
\* that was sent.
C31_JogCodes ==
  [][ /\ \A j \in 1..7, d \in {-1, 1} :
           (IF j = 7 THEN JogJ7(d) ELSE JogJoint(j, d)) /\ Sends
             => /\ Sent.cmd = "LJ"
                /\ Sent.code = j * 10 + (IF d > 0 THEN 1 ELSE 0)
                /\ \A j2 \in 1..7, d2 \in {-1, 1} :
                     <<j2, d2>> # <<j, d>> => JogCode(j2, d2) # Sent.code
      /\ \A axis \in {"X", "Y", "Z", "Rx", "Ry", "Rz"}, d \in {-1, 1} :
           JogCartesian(axis, d) /\ Sends
             => LET id == [X |-> 1, Y |-> 2, Z |-> 3, Rx |-> 4, Ry |-> 5, Rz |-> 6]
                IN /\ Sent.cmd = "LC"
                   /\ Sent.code = id[axis] * 10 + (IF d > 0 THEN 1 ELSE 0)
                   /\ \A a2 \in DOMAIN id, d2 \in {-1, 1} :
                        <<a2, d2>> # <<axis, d>>
                          => JogCode(axis_map[a2], d2) # Sent.code ]_vars

\* Joint 6 was jogged forward, then Rz backward.
C31_Witness ==
  /\ Len(tx) = 2
  /\ tx[1].cmd = "LJ" /\ tx[1].code = 61
  /\ tx[2].cmd = "LC" /\ tx[2].code = 60

C33_EveryWaypointHasSnapshot ==
  \A i \in 1..Len(pathway) :
    pathway[i].r1 # NoSnapshot \/ pathway[i].r2 # NoSnapshot

\* C34 (as stated): whenever a press of Start is handled, ES is written to
\* every connected robot and stop to the connected feeder.
C34_StartStopsAll ==
  [][ StartPress => wire' = Written(Robots, "ES", "stop") ]_vars

\* ---------------------------------------------- playback: further claims
\* C36: while the loop flag is off, a playback that is Playing comes back to
\* Idle (move_and_wait returning and the Tk loop running its callbacks are
\* the fairness of FairSpec); a
\* worker enters waypoint 1 from the start of the pathway and waypoint i + 1
\* after waypoint i, and goes back to the start of the pathway only with the
\* loop flag on, so with the flag off it issues each waypoint at most once.
C36_RunEnds ==
  /\ playback_active ~> (~playback_active \/ playback_loop)
  /\ [][\A w \in Workers :
          /\ (wpc'[w] = "r1" /\ wpc[w] # "r1") =>
               \/ wpc[w] = "while" /\ widx'[w] = 1
               \/ wpc[w] = "chk3" /\ widx'[w] = widx[w] + 1
          /\ (wpc'[w] = "while" /\ wpc[w] # "while") =>
               \/ wpc[w] = "unborn"
               \/ wpc[w] = "loopchk" /\ playback_loop]_vars

\* The only run, of a two-waypoint pathway with the loop flag off, has
\* ended after its last waypoint: the worker has returned, its
\* _stop_playback has run and playback is Idle.
C36_Witness ==
  /\ spawned = 1
  /\ wpc[1] = "done"
  /\ Len(pathway) = 2
  /\ ~playback_loop
  /\ ~playback_active
  /\ after = <<>>
  /\ wire.cmd = "S"

\* C38 (as stated): no move is written after an emergency stop issued while
\* Playing, until playback is started again. Playback was started once and
\* is Playing, the only worker has begun a move for its waypoint and the last
\* line written since is ES: the next line written is not a move.
C38_NoMoveAfterEStop ==
  [][ ( /\ spawned = 1
        /\ playback_active
        /\ lastRobot[1] # 0
        /\ wire.cmd = "ES" )
      => wire'.cmd # "MJ" ]_vars

\* ----------------------------------------------- jogging: further claims
\* C39 (as stated): on Windows a button held over consecutive polls gives
\* one on_button_press and its release one on_button_release. A poll that
\* finds a button down which the poll before also found down hands no press
\* of it to on_button_press, and a poll that finds a button up which the
\* poll before also found up hands no release of it to on_button_release.
C39_OneCallbackPerEdge ==
  [][ (platform = "win32" /\ ppc = "idle" /\ ppc' # "idle") =>
        \A b \in Buttons :
          /\ (b \in buttons /\ b \in buttons') => b \notin pressed'
          /\ (b \notin buttons /\ b \notin buttons') => b \notin released' ]_vars

\* ----------------------------------------------- session: further claims
\* C40 (as stated): every return of move_and_wait leaves the read timeout of
\* the serial port at the value it had when the call began; that value is
\* the one connect() set, so whenever no move_and_wait is running the read
\* timeout is the one of connect().
C40_TimeoutRestored ==
  mpc = "idle" => ser_timeout = ReadTimeout

\* C37 (as stated): at most one reader thread of the controller is alive.
C37_OneReader ==
  Cardinality({ t \in Readers : IsAlive(t) }) <= 1

\* C35 (as stated): the line move_and_wait reads and classifies is the
\* device's reply to its move, never the reply to a position query written
\* from another thread.
C35_ReplyIsTheMoves ==
  [][ (MoveReadline /\ rx # <<>>) => Head(rx) # PositionReply ]_vars

====
